---- MODULE Spec2Model ----
(***************************************************************************)
(* Session lifecycle (routers/sessions.py, services/session_manager.py)    *)
(* and the accent scoring engine (services/accent_engine.py) of the        *)
(* speech / accent practice backend.                                       *)
(*                                                                         *)
(* Spec       : request handlers run one at a time (a handler starts only  *)
(*              when every other request slot is idle).                    *)
(* SpecSweep  : Spec with the clock and cleanup_expired_sessions.          *)
(* SpecEval   : evaluate_attempt applied to bounded inputs.                *)
(* SpecPure   : successive calls of evaluate_attempt on one list object.   *)
(* SpecChunks : upload_chunk requests interleaved at their await points.   *)
(* SpecBlock  : one finalize and one upload interleaved on the event loop. *)
(* SpecOverlap: two finalize requests on one session, interleaved.         *)
(* SpecPoll   : Spec with the polling loop of transcribe_audio, fair.      *)
(* SpecStray  : Spec with requests that name an unknown session id.        *)
(* SpecTrain  : the train_accent pipeline (routers/accent.py).             *)
(* SpecAttempts: train_accent and delete_accent_attempt requests, one at   *)
(*              a time.                                                    *)
(* SpecRules  : evaluate_attempt on inputs around the accent thresholds.   *)
(* SpecTips   : evaluate_attempt followed by build_tip.                    *)
(* SpecFiller : count_filler_words applied to bounded transcripts.         *)
(* SpecRace   : one finalize and cleanup_expired_sessions, interleaved.    *)
(* SpecAccess : detail, audio and delete requests on a filled database,    *)
(*              by the owner, another user and an unauthenticated caller.  *)
(***************************************************************************)
EXTENDS Integers, Sequences, FiniteSets, TLC

\* ------------------------------------------------------------------ bounds
MaxTicks == 2
MaxChunks == 1

\* ------------------------------------------------------- program constants
DefaultMaxAgeHours == 24

\* ------------------------------------------------------------ input domains
SessionIds == {"s1", "s2"}
Users == {"u1"}
NoUser == "none"
\* who sends a request: a user of the model, another signed-in user who
\* owns nothing, or nobody
Callers == Users \cup {"u2", NoUser}
Finalizers == {"f1"}
Uploaders == {"c1"}
Sweeper == "sweeper"
\* a second request of each kind, for the interleaved specifications
AllFinalizers == Finalizers \cup {"f2"}
AllUploaders == Uploaders \cup {"c2"}
Requests == AllFinalizers \cup AllUploaders \cup {Sweeper}
\* a session id no call of create_session has returned
UnknownIds == {"s9"}
PathIds == SessionIds \cup UnknownIds
Chunks == {"bytes"}
\* the body a client sends: the second client's differs from the first's
Bodies(u) == IF u = "c2" THEN {"more"} ELSE Chunks
Durations == {3}
MaxAges == {1, DefaultMaxAgeHours}
\* transcript texts, written as their runs of letters (what the regex
\* [a-zA-Z']+ of count_filler_words sees); <<>> is the empty text
Transcripts == { <<>>, <<"Um", "kind", "of", "like">> }

\* nullable column / Optional value
Null == <<>>
Some(v) == <<v>>

VARIABLES
    rows,        \* table sessions: committed rows, keyed by session_id
    allocated,   \* session ids handed out by uuid4 so far
    fs,          \* live_sessions/<id>/ : [dir, webm, wav]
    archive,     \* objects in the object store / recordings directory
    configured,  \* storage.is_configured()
    now,         \* wall clock, hours
    ticks,       \* number of clock advances so far
    pc,          \* position of every request handler
    fin,         \* locals of the finalize_session handlers
    up,          \* locals of the upload_chunk handlers
    sw,          \* locals of cleanup_expired_sessions
    ev,          \* one call of evaluate_attempt: arguments and result
    past,        \* the calls of evaluate_attempt made so far
    attempts,    \* table practice_attempts: committed rows
    objects,     \* objects held by the accent audio storage
    tr,          \* the train_accent request: position and locals
    del,         \* the delete_accent_attempt request: position and locals
    fw,          \* one call of count_filler_words: argument and result
    rec,         \* the delete_session_recording request: position and locals
    view         \* one read request (detail or audio): arguments and answer

trainVars == <<attempts, objects, tr, del>>

vars == <<rows, allocated, fs, archive, configured, now, ticks, pc, fin, up,
          sw, ev, past, attempts, objects, tr, del, fw, rec, view>>

\* --------------------------------------------------------------- filesystem
NoDir == [dir |-> FALSE, webm |-> Null, wav |-> FALSE]

\* Path.mkdir(parents=True, exist_ok=True) of the session directory
mkdir(f, s) == [f EXCEPT ![s].dir = TRUE]

\* SessionManager.get_audio_path: creates the directory as a side effect
get_audio_path(f, s) == mkdir(f, s)

\* shutil.rmtree(work_dir, ignore_errors=True)
rmtree(f, s) == [f EXCEPT ![s] = NoDir]

\* os.path.exists(webm_path)
exists_webm(f, s) == f[s].webm # Null

\* ---------------------------------------------------------- filler counting
FILLER_PHRASES ==
    << <<"um">>, <<"uh">>, <<"erm">>, <<"hmm">>, <<"like">>, <<"so">>,
       <<"actually">>, <<"basically">>, <<"literally">>,
       <<"you", "know">>, <<"i", "mean">>, <<"kind", "of">>, <<"sort", "of">> >>

\* str.lower() on the words the model uses
Lower(w) ==
    CASE w = "Um" -> "um"
      [] w = "Like" -> "like"
      [] OTHER -> w

LowerAll(ws) == [i \in 1..Len(ws) |-> Lower(ws[i])]

Occurrences_once(tokens, phrase) ==
    IF \E idx \in 0..(Len(tokens) - Len(phrase)) :
          SubSeq(tokens, idx + 1, idx + Len(phrase)) = phrase
    THEN 1 ELSE 0

\* for idx in range(len(tokens) - size + 1): tokens[idx:idx+size] == phrase
Occurrences(tokens, phrase) ==
    Cardinality({ idx \in 0..(Len(tokens) - Len(phrase)) :
                    SubSeq(tokens, idx + 1, idx + Len(phrase)) = phrase })

RECURSIVE FillerTotal(_, _)
FillerTotal(tokens, k) ==
    IF k = 0 THEN 0
    ELSE FillerTotal(tokens, k - 1) + Occurrences(tokens, FILLER_PHRASES[k])

count_filler_words(transcript) ==
    IF transcript = <<>> THEN 0
    ELSE FillerTotal(LowerAll(transcript), Len(FILLER_PHRASES))

\* --------------------------------------------------------------- rows, keys
NewRow_default_guest(owner, guest, t) ==
    [ is_guest |-> FALSE, user_id |-> owner, created_at |-> t,
      final_transcript |-> Null, audio_path |-> Null,
      duration_seconds |-> Null, filler_word_count |-> Null ]

\* session_manager.py lines 32-38: the row create_session inserts
NewRow(owner, guest, t) ==
    [ is_guest |-> guest, user_id |-> owner, created_at |-> t,
      final_transcript |-> Null, audio_path |-> Null,
      duration_seconds |-> Null, filler_word_count |-> Null ]

\* SELECT ... WHERE session_id = s : Null or Some(row)
SelectRow(s) == IF s \in DOMAIN rows THEN Some(rows[s]) ELSE Null

OwnerSegment(user_id) == IF user_id # NoUser THEN user_id ELSE "guests"

\* SessionManager._build_storage_key / the archive destination
StorageKey(place, user_id, s) ==
    [place |-> place, owner |-> OwnerSegment(user_id), sid |-> s]

\* transcript_text or None
OrNone(text) == IF text = <<>> THEN Null ELSE Some(text)

\* ------------------------------------------------------------ request slots
IdleFin ==
    [ sid |-> "none", duration |-> Null, transcript |-> Null, filler |-> Null,
      row |-> Null, pre |-> << >>, preFs |-> NoDir, touched |-> FALSE,
      outcome |-> "none", response |-> Null, status |-> Null ]

IdleUp == [sid |-> "none", chunk |-> Null]

IdleSw == [max_age |-> 0, expired |-> {}, pre |-> << >>, preFs |-> << >>,
           outcome |-> "none"]

\* no call of evaluate_attempt
IdleEv == [pc |-> "none", text |-> <<>>, recognised |-> <<>>,
           accent |-> "none", aligned |-> <<>>, feedback |-> <<>>,
           score |-> 0, tip |-> Null]

\* no train_accent request
IdleTr ==
    [ pc |-> "idle", attempt_id |-> "none", text |-> <<>>, accent |-> "none",
      audio_bytes |-> <<>>, stored_audio_path |-> Null, jobs |-> 0,
      waited |-> 0, transcript |-> Null, words |-> <<>>, feedback |-> <<>>,
      score |-> 0, db_user_id |-> NoUser, outcome |-> "none", pre |-> {},
      preObjects |-> {} ]

\* no call of count_filler_words
IdleFw == [pc |-> "none", transcript |-> <<>>, total |-> 0]

\* no delete_accent_attempt request
IdleDel == [pc |-> "idle", current_user |-> NoUser, attempt_id |-> "none",
            attempt |-> Null, outcome |-> "none"]

\* no delete_session_recording request
IdleRec == [pc |-> "idle", current_user |-> NoUser, session_id |-> "none",
            session |-> Null, outcome |-> "none"]

\* no read request
IdleView == [pc |-> "idle", handler |-> "none", current_user |-> NoUser,
             id |-> "none", outcome |-> "none", body |-> Null]

\* handlers run one at a time: r may take a step only if every other slot
\* is idle
Alone(r) == \A q \in Requests \ {r} : pc[q] = "idle"
AllIdle == \A q \in Requests : pc[q] = "idle"

Init ==
    /\ rows = << >>
    /\ allocated = {}
    /\ fs = [s \in PathIds |-> NoDir]
    /\ archive = {}
    /\ configured \in BOOLEAN
    /\ now = 0
    /\ ticks = 0
    /\ pc = [r \in Requests |-> "idle"]
    /\ fin = [f \in AllFinalizers |-> IdleFin]
    /\ up = [u \in AllUploaders |-> IdleUp]
    /\ sw = IdleSw
    /\ ev = IdleEv
    /\ past = <<>>
    /\ attempts = {}
    /\ objects = {}
    /\ tr = IdleTr
    /\ del = IdleDel
    /\ fw = IdleFw
    /\ rec = IdleRec
    /\ view = IdleView

\* hours between two observations of the clock: a day, then an hour, ...
HourStep(k) == IF k % 2 = 1 THEN DefaultMaxAgeHours ELSE 1

\* uuid.uuid4(): an id never handed out before (ids are interchangeable,
\* so the model hands them out in order)
FreshId ==
    IF "s1" \notin allocated THEN {"s1"}
    ELSE IF "s2" \notin allocated THEN {"s2"}
    ELSE {}

\* the clock advances
Tick ==
    /\ ticks < MaxTicks
    /\ now' = now + HourStep(ticks + 1)
    /\ ticks' = ticks + 1
    /\ UNCHANGED <<rec, view, fw, past, trainVars, ev, rows, allocated, fs, archive, configured, pc, fin, up, sw>>

\* POST /session/start -> SessionManager.create_session
start_session ==
    \E owner \in Users \cup {NoUser} :
    \E s \in FreshId :
        /\ allocated' = allocated \cup {s}
        /\ fs' = mkdir(fs, s)
        /\ rows' = (s :> NewRow(owner, owner = NoUser, now)) @@ rows
        /\ UNCHANGED <<rec, view, fw, past, trainVars, ev, archive, configured, now, ticks, pc, fin, up, sw>>

\* ------------------------------------------------ POST /session/{id}/chunk
\* upload_chunk up to "await file.read()": get_audio_path, then open(path,
\* "ab") creates the file when it is missing
\* line 83: asyncio.Lock() makes a new lock in every call, so the lock a
\* call takes is its own
LockOf(u, s) == u

\* "async with lock" is entered only while no other call holds that lock
LockFree(u, s) ==
    \A v \in AllUploaders \ {u} :
        pc[v] = "write" => LockOf(v, up[v].sid) # LockOf(u, s)

\* upload_chunk(session_id = s) up to "await file.read()"
chunk_begin(u, s) ==
    /\ pc[u] = "idle"
    /\ LockFree(u, s)
    /\ \E c \in Bodies(u) :
        /\ IF fs[s].webm = Null THEN TRUE
           ELSE Len(fs[s].webm[1]) < MaxChunks
        /\ up' = [up EXCEPT ![u] = [sid |-> s, chunk |-> Some(c)]]
        /\ fs' = [get_audio_path(fs, s) EXCEPT
                    ![s].webm = IF fs[s].webm = Null THEN Some(<<>>) ELSE @]
    /\ pc' = [pc EXCEPT ![u] = "write"]
    /\ UNCHANGED <<rec, view, fw, past, trainVars, ev, rows, allocated, archive, configured, now, ticks, fin, sw>>

\* a chunk for a session that create_session has returned
chunk_open(u) == \E s \in allocated : chunk_begin(u, s)

chunk_write_truncating(u) ==
    /\ pc[u] = "write"
    /\ LET s == up[u].sid IN
       fs' = IF fs[s].webm = Null THEN fs
             ELSE [fs EXCEPT ![s].webm = Some(<<up[u].chunk[1]>>)]
    /\ pc' = [pc EXCEPT ![u] = "idle"]
    /\ up' = [up EXCEPT ![u] = IdleUp]
    /\ UNCHANGED <<rec, view, fw, past, trainVars, ev, rows, allocated, archive, configured, now, ticks, fin, sw>>

\* f.write(...) and the response; a file unlinked since the open takes the
\* bytes with it
chunk_write(u) ==
    /\ pc[u] = "write"
    /\ LET s == up[u].sid IN
       fs' = IF fs[s].webm = Null THEN fs
             ELSE [fs EXCEPT ![s].webm = Some(Append(@[1], up[u].chunk[1]))]
    /\ pc' = [pc EXCEPT ![u] = "idle"]
    /\ up' = [up EXCEPT ![u] = IdleUp]
    /\ UNCHANGED <<rec, view, fw, past, trainVars, ev, rows, allocated, archive, configured, now, ticks, fin, sw>>

\* --------------------------------------------- POST /session/{id}/finalize
\* raise HTTPException(...): the handler ends without a response body
Fail(f, why) ==
    /\ pc' = [pc EXCEPT ![f] = "done"]
    /\ fin' = [fin EXCEPT ![f].outcome = why]

\* lines 94-98: get_audio_path, then 404 when no container was captured
finalize_on(f, s) ==
    /\ pc[f] = "idle"
    /\ fs' = get_audio_path(fs, s)
    /\ IF exists_webm(fs, s)
       THEN /\ pc' = [pc EXCEPT ![f] = "transcode"]
            /\ fin' = [fin EXCEPT ![f] = [IdleFin EXCEPT
                          !.sid = s, !.pre = rows, !.preFs = fs'[s]]]
       ELSE /\ pc' = [pc EXCEPT ![f] = "done"]
            /\ fin' = [fin EXCEPT ![f] = [IdleFin EXCEPT
                          !.sid = s, !.pre = rows, !.preFs = fs'[s],
                          !.outcome = "not_found"]]
    /\ UNCHANGED <<rec, view, fw, past, trainVars, ev, rows, allocated, archive, configured, now, ticks, up, sw>>

\* finalize of a session that create_session has returned
finalize_begin(f) == \E s \in allocated : finalize_on(f, s)

ffmpeg_failed_cleanup(f) ==
    /\ Fail(f, "ffmpeg_error")
    /\ fs' = rmtree(fs, fin[f].sid)

\* lines 110-111: a non-zero exit raises, nothing else is done
ffmpeg_failed(f) ==
    /\ Fail(f, "ffmpeg_error")
    /\ fs' = fs

\* lines 100-111: ffmpeg writes session.wav, or exits non-zero
transcode(f) ==
    /\ pc[f] = "transcode"
    /\ LET s == fin[f].sid IN
       \/ /\ fs[s].webm # Null
          /\ Len(fs[s].webm[1]) > 0
          /\ fs' = [fs EXCEPT ![s].wav = TRUE]
          /\ pc' = [pc EXCEPT ![f] = "probe"]
          /\ fin' = fin
       \/ ffmpeg_failed(f)
    /\ UNCHANGED <<rec, view, fw, past, trainVars, ev, rows, allocated, archive, configured, now, ticks, up, sw>>

probe_fatal(f) ==
    /\ pc[f] = "probe"
    /\ \/ /\ \E n \in Durations : fin' = [fin EXCEPT ![f].duration = Some(n)]
          /\ pc' = [pc EXCEPT ![f] = "transcribe"]
       \/ Fail(f, "probe_error")
    /\ UNCHANGED <<rec, view, fw, past, trainVars, ev, rows, allocated, fs, archive, configured, now, ticks, up, sw>>

\* lines 113-127: ffprobe, best effort: every failure is caught and leaves
\* duration = None
probe(f) ==
    /\ pc[f] = "probe"
    /\ \E d \in {Null} \cup {Some(n) : n \in Durations} :
         fin' = [fin EXCEPT ![f].duration = d]
    /\ pc' = [pc EXCEPT ![f] = "transcribe"]
    /\ UNCHANGED <<rec, view, fw, past, trainVars, ev, rows, allocated, fs, archive, configured, now, ticks, up, sw>>

transcription_failed_cleanup(f) ==
    /\ Fail(f, "transcription_error")
    /\ fs' = rmtree(fs, fin[f].sid)

transcription_failed_swallowed(f) ==
    /\ pc' = [pc EXCEPT ![f] = "persist"]
    /\ fin' = [fin EXCEPT ![f].outcome = "transcription_error",
                          ![f].transcript = Some(<<>>),
                          ![f].filler = Some(0)]
    /\ fs' = fs

\* lines 132-134: the exception becomes a 500; the directory is left alone
transcription_failed(f) ==
    /\ Fail(f, "transcription_error")
    /\ fs' = fs

\* the job states the collaborator reports before completed or error
PendingStatuses == {"queued", "processing"}

\* inside transcriber.transcribe_audio, called without await: the handler
\* holds the event loop's thread for the whole of the polling
Polling(f) == pc[f] = "transcribe" /\ fin[f].status # Null

\* transcription_service.py lines 43-55: one turn of "while True" in which
\* the job is neither completed nor in error; the loop goes round
poll_wait(f) ==
    /\ pc[f] = "transcribe"
    /\ fs[fin[f].sid].wav
    /\ \E st \in PendingStatuses : fin' = [fin EXCEPT ![f].status = Some(st)]
    /\ UNCHANGED <<rec, view, fw, past, trainVars, ev, rows, allocated, fs, archive, configured, now, ticks, pc, up, sw>>

\* lines 129-136: transcriber.transcribe_audio, then count_filler_words
transcribe(f) ==
    /\ pc[f] = "transcribe"
    /\ \/ /\ fs[fin[f].sid].wav
          /\ \E t \in Transcripts :
               fin' = [fin EXCEPT ![f].transcript = Some(t),
                                  ![f].filler = Some(count_filler_words(t)),
                                  ![f].status = Some("completed")]
          /\ pc' = [pc EXCEPT ![f] = "persist"]
          /\ fs' = fs
       \/ transcription_failed(f)
    /\ UNCHANGED <<rec, view, fw, past, trainVars, ev, rows, allocated, archive, configured, now, ticks, up, sw>>

\* ------------------------------------- SessionManager.finalize_and_persist
IsGuestRow_never(row) == FALSE

\* line 74: if row.is_guest
IsGuestRow(row) == row.is_guest

db_delete_blanked(t, s) ==
    [t EXCEPT ![s].final_transcript = Null, ![s].audio_path = Null]

\* db.delete(row) once committed: the row is gone from the table
db_delete(t, s) == [x \in DOMAIN t \ {s} |-> t[x]]

EditRow_keep_empty(row, text, duration, filler) ==
    [row EXCEPT !.final_transcript = Some(text),
                !.duration_seconds = duration,
                !.filler_word_count = filler]

\* lines 82-84: the metadata written on the ORM row
EditRow(row, text, duration, filler) ==
    [row EXCEPT !.final_transcript = OrNone(text),
                !.duration_seconds = duration,
                !.filler_word_count = filler]

WithAudioPath_forgotten(row, key) == row

\* lines 92 and 105: row.audio_path = stored key / archive destination
WithAudioPath(row, key) == [row EXCEPT !.audio_path = Some(key)]

after_rollback_flushed(t, f) ==
    IF fin[f].sid \in DOMAIN t /\ fin[f].row # Null
    THEN [t EXCEPT ![fin[f].sid] = fin[f].row[1]]
    ELSE t

\* lines 108-113: db.rollback() drops the edits of the ORM row; the table
\* keeps its committed rows
after_rollback(t, f) == t

finally_rmtree_skipped(f, s, failed) == IF failed THEN f ELSE rmtree(f, s)

\* lines 114-116: finally: shutil.rmtree(work_dir), whatever happened
finally_rmtree(f, s, failed) == rmtree(f, s)

row_missing_raises(f) ==
    /\ Fail(f, "not_found")
    /\ UNCHANGED <<rows, archive, fs>>

\* lines 69-72: no row, best-effort cleanup of the working directory
row_missing(f) ==
    /\ fs' = rmtree(fs, fin[f].sid)
    /\ pc' = [pc EXCEPT ![f] = "respond"]
    /\ fin' = [fin EXCEPT ![f].touched = TRUE]
    /\ UNCHANGED <<rows, archive>>

\* lines 63-105, up to the first storage or commit round trip
persist(f) ==
    /\ pc[f] = "persist"
    /\ LET s == fin[f].sid
           found == SelectRow(s)
       IN
       IF found = Null
       THEN row_missing(f)
       ELSE IF IsGuestRow(found[1])
       THEN \* lines 74-77: purge; the delete waits for the commit
            /\ fs' = rmtree(fs, s)
            /\ pc' = [pc EXCEPT ![f] = "purge_commit"]
            /\ fin' = [fin EXCEPT ![f].touched = TRUE, ![f].row = found]
            /\ UNCHANGED <<rows, archive>>
       ELSE LET edited == EditRow(found[1], fin[f].transcript[1],
                                  fin[f].duration, fin[f].filler)
            IN
            IF configured
            THEN \* lines 89-91: upload in a worker thread
                 /\ pc' = [pc EXCEPT ![f] = "upload"]
                 /\ fin' = [fin EXCEPT ![f].touched = TRUE,
                                       ![f].row = Some(edited)]
                 /\ UNCHANGED <<rows, fs, archive>>
            ELSE \/ \* lines 101-105: archived locally
                    /\ fs[s].wav
                    /\ LET key == StorageKey("local", edited.user_id, s) IN
                       /\ archive' = archive \cup {key}
                       /\ fin' = [fin EXCEPT ![f].touched = TRUE,
                                    ![f].row = Some(WithAudioPath(edited, key))]
                    /\ fs' = [fs EXCEPT ![s].wav = FALSE]
                    /\ pc' = [pc EXCEPT ![f] = "commit"]
                    /\ rows' = rows
                 \/ \* the move raises: lines 111-116
                    /\ fs' = finally_rmtree(fs, s, TRUE)
                    /\ pc' = [pc EXCEPT ![f] = "done"]
                    /\ fin' = [fin EXCEPT ![f].touched = TRUE,
                                          ![f].row = Some(edited),
                                          ![f].outcome = "server_error"]
                    /\ rows' = after_rollback(rows, f)
                    /\ archive' = archive
    /\ UNCHANGED <<rec, view, fw, past, trainVars, ev, allocated, configured, now, ticks, up, sw>>

\* lines 90-97 and 108-116: storage.upload_audio returns the key or raises
\* StorageError, which the router turns into a 500
upload(f) ==
    /\ pc[f] = "upload"
    /\ LET s == fin[f].sid
           edited == fin[f].row[1]
           key == StorageKey("s3", edited.user_id, s)
       IN
       \/ /\ fs[s].wav
          /\ archive' = archive \cup {key}
          /\ fin' = [fin EXCEPT ![f].row = Some(WithAudioPath(edited, key))]
          /\ fs' = [fs EXCEPT ![s].wav = FALSE]
          /\ pc' = [pc EXCEPT ![f] = "commit"]
          /\ rows' = rows
       \/ /\ fs' = finally_rmtree(fs, s, TRUE)
          /\ Fail(f, "storage_error")
          /\ rows' = after_rollback(rows, f)
          /\ archive' = archive
    /\ UNCHANGED <<rec, view, fw, past, trainVars, ev, allocated, configured, now, ticks, up, sw>>

\* lines 107-116: db.commit() of the edited row, then the finally block
commit(f) ==
    /\ pc[f] = "commit"
    /\ LET s == fin[f].sid IN
       \/ /\ s \in DOMAIN rows
          /\ rows' = [rows EXCEPT ![s] = fin[f].row[1]]
          /\ pc' = [pc EXCEPT ![f] = "respond"]
          /\ fin' = fin
          /\ fs' = finally_rmtree(fs, s, FALSE)
       \/ /\ rows' = after_rollback(rows, f)
          /\ Fail(f, "server_error")
          /\ fs' = finally_rmtree(fs, s, TRUE)
    /\ UNCHANGED <<rec, view, fw, past, trainVars, ev, allocated, archive, configured, now, ticks, up, sw>>

\* lines 77-79: db.delete(row); db.commit()
purge_commit(f) ==
    /\ pc[f] = "purge_commit"
    /\ LET s == fin[f].sid IN
       \/ /\ rows' = db_delete(rows, s)
          /\ pc' = [pc EXCEPT ![f] = "respond"]
          /\ fin' = [fin EXCEPT ![f].row = Null]
       \/ /\ rows' = rows
          /\ Fail(f, "server_error")
    /\ UNCHANGED <<rec, view, fw, past, trainVars, ev, allocated, fs, archive, configured, now, ticks, up, sw>>

ResponseBody_stored_only(f, audio_url) ==
    [final |-> IF fin[f].sid \in DOMAIN rows THEN fin[f].transcript[1] ELSE <<>>,
     filler_word_count |-> fin[f].filler[1],
     audio_url |-> audio_url]

\* sessions.py lines 158-162
ResponseBody(f, audio_url) ==
    [final |-> fin[f].transcript[1],
     filler_word_count |-> fin[f].filler[1],
     audio_url |-> audio_url]

\* sessions.py lines 151-162: audio_url and the response body
respond(f) ==
    /\ pc[f] = "respond"
    /\ LET s == fin[f].sid
           row == SelectRow(s)
           audio_url == IF row # Null /\ row[1].audio_path # Null
                        THEN Some(s) ELSE Null
       IN fin' = [fin EXCEPT ![f].outcome = "ok",
                             ![f].response = Some(ResponseBody(f, audio_url))]
    /\ pc' = [pc EXCEPT ![f] = "done"]
    /\ UNCHANGED <<rec, view, fw, past, trainVars, ev, rows, allocated, fs, archive, configured, now, ticks, up, sw>>

\* the response has been sent; the request's locals are gone
finalize_return(f) ==
    /\ pc[f] = "done"
    /\ pc' = [pc EXCEPT ![f] = "idle"]
    /\ fin' = [fin EXCEPT ![f] = IdleFin]
    /\ UNCHANGED <<rec, view, fw, past, trainVars, ev, rows, allocated, fs, archive, configured, now, ticks, up, sw>>

\* ---------------------------------- SessionManager.cleanup_expired_sessions
Expired_inclusive(row, max_age_hours, t) ==
    /\ row.is_guest = TRUE
    /\ row.created_at <= t - max_age_hours
    /\ row.final_transcript = Null

\* the WHERE clause of lines 123-130
Expired(row, max_age_hours, t) ==
    /\ row.is_guest = TRUE
    /\ row.created_at < t - max_age_hours
    /\ row.final_transcript = Null

\* lines 123-141: select, then per row rmtree and db.delete
cleanup_select ==
    /\ pc[Sweeper] = "idle"
    /\ \E h \in MaxAges :
         LET expired == { s \in DOMAIN rows : Expired(rows[s], h, now) } IN
         /\ sw' = [max_age |-> h, expired |-> expired, pre |-> rows,
                   preFs |-> fs,
                   outcome |-> IF expired = {} THEN "ok" ELSE "none"]
         /\ fs' = [s \in PathIds |->
                     IF s \in expired THEN NoDir ELSE fs[s]]
         /\ pc' = [pc EXCEPT ![Sweeper] = IF expired = {} THEN "done"
                                           ELSE "commit"]
    /\ UNCHANGED <<rec, view, fw, past, trainVars, ev, rows, allocated, archive, configured, now, ticks, fin, up>>

\* lines 143-145: one commit for all the deletes
cleanup_commit ==
    /\ pc[Sweeper] = "commit"
    /\ \/ /\ rows' = [t \in DOMAIN rows \ sw.expired |-> rows[t]]
          /\ sw' = [sw EXCEPT !.outcome = "ok"]
       \/ /\ rows' = rows
          /\ sw' = [sw EXCEPT !.outcome = "server_error"]
    /\ pc' = [pc EXCEPT ![Sweeper] = "done"]
    /\ UNCHANGED <<rec, view, fw, past, trainVars, ev, allocated, fs, archive, configured, now, ticks, fin, up>>

cleanup_return ==
    /\ pc[Sweeper] = "done"
    /\ pc' = [pc EXCEPT ![Sweeper] = "idle"]
    /\ sw' = IdleSw
    /\ UNCHANGED <<rec, view, fw, past, trainVars, ev, rows, allocated, fs, archive, configured, now, ticks, fin, up>>

\* ------------------------------------------- services/accent_engine.py
\* texts are sequences of characters
IsSpace(c) == c \in {" ", "\t"}
\* the class [\w'] of PUNCT_RE, on the characters the texts use
IsWordChar(c) ==
    c \in {"a", "b", "c", "e", "h", "i", "r", "t", "w", "y", "C", "H", "'",
          "_"}

LowerChar(c) ==
    CASE c = "C" -> "c"
      [] c = "H" -> "h"
      [] OTHER -> c

\* str.lower()
lower(t) == [i \in 1..Len(t) |-> LowerChar(t[i])]

RECURSIVE lstrip(_)
lstrip(t) == IF t # <<>> /\ IsSpace(Head(t)) THEN lstrip(Tail(t)) ELSE t

RECURSIVE rstrip(_)
rstrip(t) ==
    IF t # <<>> /\ IsSpace(t[Len(t)]) THEN rstrip(SubSeq(t, 1, Len(t) - 1))
    ELSE t

\* str.strip()
strip(t) == rstrip(lstrip(t))

\* WORD_SPLIT_RE.split(text): the pieces between the runs of whitespace,
\* empty pieces included
RECURSIVE re_split(_, _, _)
re_split(t, i, cur) ==
    IF i > Len(t) THEN <<cur>>
    ELSE IF IsSpace(t[i])
         THEN IF i > 1 /\ IsSpace(t[i - 1])
              THEN re_split(t, i + 1, cur)
              ELSE <<cur>> \o re_split(t, i + 1, <<>>)
         ELSE re_split(t, i + 1, Append(cur, t[i]))

NonEmpty(piece) == piece # <<>>

\* [token for token in WORD_SPLIT_RE.split(text.strip()) if token]
tokenise(text) == SelectSeq(re_split(strip(text), 1, <<>>), NonEmpty)

RECURSIVE DropLeadingPunct(_)
DropLeadingPunct(t) ==
    IF t # <<>> /\ ~IsWordChar(Head(t)) THEN DropLeadingPunct(Tail(t)) ELSE t

RECURSIVE DropTrailingPunct(_)
DropTrailingPunct(t) ==
    IF t # <<>> /\ ~IsWordChar(t[Len(t)])
    THEN DropTrailingPunct(SubSeq(t, 1, Len(t) - 1))
    ELSE t

\* PUNCT_RE.sub("", token).lower()
strip_punct(token) == lower(DropTrailingPunct(DropLeadingPunct(token)))

\* confidences are hundredths
CONFIDENCE_THRESHOLD == 85

W_car == <<"c", "a", "r">>
W_bath == <<"b", "a", "t", "h">>
W_hi == <<"h", "i">>

ACCENT_R_SENSITIVE ==
    { W_car,
      <<"f", "a", "r">>,
      <<"w", "e", "a", "t", "h", "e", "r">>,
      <<"c", "o", "l", "o", "u", "r">>,
      <<"c", "o", "l", "o", "r">>,
      <<"n", "e", "a", "r">>,
      <<"d", "o", "o", "r">>,
      <<"f", "l", "o", "o", "r">> }
BRITISH_FLAP_WORDS ==
    { <<"w", "a", "t", "e", "r">>,
      <<"b", "u", "t", "t", "e", "r">>,
      <<"c", "i", "t", "y">>,
      <<"b", "e", "t", "t", "e", "r">> }
BRITISH_BROAD_A ==
    { W_bath,
      <<"p", "a", "t", "h">>,
      <<"g", "l", "a", "s", "s">>,
      <<"c", "a", "n", "'", "t">>,
      <<"d", "a", "n", "c", "e">> }

\* WordFeedback(text=..., status=...)
WordFeedback(text, status, spoken, confidence, issue_code) ==
    [ text |-> text, status |-> status, note |-> issue_code,
      spoken |-> spoken, confidence |-> confidence,
      issue_code |-> issue_code ]

PunctuationItem_skipped(expected) == <<>>

PunctuationItem_spoken(expected) ==
    << WordFeedback(expected, "ok", Some(expected), Some(99), Null) >>

\* lines 78-80: a pure-punctuation token is ok and consumes no spoken word
PunctuationItem(expected) ==
    << WordFeedback(expected, "ok", Null, Null, Null) >>

\* lines 82-91
MissingItem(expected) ==
    WordFeedback(expected, "bad", Null, Null, Some("word_missing"))

CompareItem_any_confidence(expected, spoken) ==
    IF strip_punct(spoken.word) = strip_punct(expected)
    THEN WordFeedback(expected, "ok", Some(spoken.word),
                      Some(spoken.confidence), Null)
    ELSE WordFeedback(expected, "bad", Some(spoken.word),
                      Some(spoken.confidence), Some("mismatch"))

\* lines 96-135: one expected token against the spoken word consumed for it
CompareItem(expected, spoken) ==
    IF strip_punct(spoken.word) = strip_punct(expected)
    THEN IF spoken.confidence >= CONFIDENCE_THRESHOLD
         THEN WordFeedback(expected, "ok", Some(spoken.word),
                           Some(spoken.confidence), Null)
         ELSE WordFeedback(expected, "bad", Some(spoken.word),
                           Some(spoken.confidence), Some("low_confidence"))
    ELSE WordFeedback(expected, "bad", Some(spoken.word),
                      Some(spoken.confidence), Some("mismatch"))

Advance_stuck(spoken_index) == spoken_index

\* line 94: spoken_index += 1
Advance(spoken_index) == spoken_index + 1

\* lines 75-135: the loop over expected_tokens with the cursor spoken_index
RECURSIVE Align(_, _, _, _)
Align(expected_tokens, i, spoken_tokens, spoken_index) ==
    IF i > Len(expected_tokens) THEN <<>>
    ELSE LET expected == expected_tokens[i] IN
         IF strip_punct(expected) = <<>>
         THEN PunctuationItem(expected)
                \o Align(expected_tokens, i + 1, spoken_tokens, spoken_index)
         ELSE IF spoken_index >= Len(spoken_tokens)
         THEN << MissingItem(expected) >>
                \o Align(expected_tokens, i + 1, spoken_tokens, spoken_index)
         ELSE << CompareItem(expected, spoken_tokens[spoken_index + 1]) >>
                \o Align(expected_tokens, i + 1, spoken_tokens,
                         Advance(spoken_index))

EndsWithR(stripped) == stripped # <<>> /\ stripped[Len(stripped)] = "r"

Flag_forgiving(item, code) ==
    [item EXCEPT !.status = "ok", !.issue_code = Some(code),
                 !.note = Some(code)]

\* item.status = "accent_mismatch"; item.issue_code = ...; item.note = ...
Flag(item, code) ==
    [item EXCEPT !.status = "accent_mismatch", !.issue_code = Some(code),
                 !.note = Some(code)]

AmericanRules_clear_only(item, stripped, confidence) ==
    IF /\ EndsWithR(stripped) \/ stripped \in ACCENT_R_SENSITIVE
       /\ item.status = "ok" /\ confidence < 92
    THEN Flag(item, "american_soft_r")
    ELSE IF stripped \in BRITISH_BROAD_A /\ item.status = "ok" /\ confidence < 90
    THEN Flag(item, "american_broad_a")
    ELSE item

\* lines 155-176
AmericanRules(item, stripped, confidence) ==
    LET r == IF EndsWithR(stripped) \/ stripped \in ACCENT_R_SENSITIVE
             THEN IF item.status = "ok" /\ confidence < 92
                  THEN Flag(item, "american_soft_r")
                  ELSE IF /\ item.status = "bad"
                          /\ item.issue_code = Some("low_confidence")
                  THEN Flag(item, "american_soft_r")
                  ELSE item
             ELSE item
    IN IF stripped \in BRITISH_BROAD_A /\ r.status = "ok" /\ confidence < 90
       THEN Flag(r, "american_broad_a")
       ELSE r

BritishRules_inclusive(item, stripped, confidence) ==
    IF stripped \in BRITISH_FLAP_WORDS /\ confidence >= 88
    THEN Flag(item, "british_flap_t")
    ELSE IF /\ EndsWithR(stripped) \/ stripped \in ACCENT_R_SENSITIVE
            /\ confidence >= 90
    THEN Flag(item, "british_r")
    ELSE item

\* lines 178-191
BritishRules(item, stripped, confidence) ==
    IF stripped \in BRITISH_FLAP_WORDS /\ confidence > 88
    THEN Flag(item, "british_flap_t")
    ELSE IF /\ EndsWithR(stripped) \/ stripped \in ACCENT_R_SENSITIVE
            /\ confidence > 90
    THEN Flag(item, "british_r")
    ELSE item

\* lines 148-191: the body of the loop of _apply_accent_rules
AccentRule(item, accent_target) ==
    LET stripped == strip_punct(item.text) IN
    IF stripped = <<>> \/ item.spoken = Null THEN item
    ELSE LET confidence == item.confidence[1] IN
         IF accent_target = "american"
         THEN AmericanRules(item, stripped, confidence)
         ELSE IF accent_target = "british"
         THEN BritishRules(item, stripped, confidence)
         ELSE item

apply_accent_rules(feedback, accent_target) ==
    [i \in 1..Len(feedback) |-> AccentRule(feedback[i], accent_target)]

\* line 139
ok_count(feedback) ==
    Cardinality({i \in 1..Len(feedback) : feedback[i].status = "ok"})

\* line 140
total(feedback) ==
    Cardinality({i \in 1..Len(feedback) :
                   strip_punct(feedback[i].text) # <<>>})

\* round(x, 2) of x = 100 * ok_count / total, in hundredths
Round2(oks, all) ==
    LET n == oks * 10000
        q == n \div all
        twice == 2 * (n % all)
    IN IF twice < all THEN q
       ELSE IF twice > all THEN q + 1
       ELSE IF q % 2 = 0 THEN q ELSE q + 1

\* lines 139-141
Score(feedback) ==
    IF total(feedback) = 0 THEN 0
    ELSE Round2(ok_count(feedback), total(feedback))

\* lines 68-135: the feedback list when _apply_accent_rules is called
Aligned(expected_text, recognised) ==
    Align(tokenise(expected_text), 1, recognised, 0)

\* evaluate_attempt: <<feedback, score>>
evaluate_attempt(expected_text, recognised, accent_target) ==
    LET feedback == apply_accent_rules(Aligned(expected_text, recognised),
                                       accent_target)
    IN <<feedback, Score(feedback)>>

\* ----------------------------------------------- inputs of evaluate_attempt
MaxTokens == 2
MaxRecog == 2

W_CarComma == <<"C", "a", "r", ",">>
W_dashes == <<"-", "-">>
Vocabulary == {W_hi, W_CarComma, W_dashes, W_bath}
Layouts == {"plain", "padded"}
Accents == {"american", "british"}
Confidences == {80, 89, 95}
RecognisedWords == [word : {W_hi, W_car}, confidence : Confidences]

RECURSIVE JoinWith(_, _)
JoinWith(tokens, sep) ==
    IF tokens = <<>> THEN <<>>
    ELSE IF Len(tokens) = 1 THEN tokens[1]
    ELSE tokens[1] \o sep \o JoinWith(Tail(tokens), sep)

\* the text of the tokens: one space between them, or tab and spaces
\* between and around them
TextOf(tokens, layout) ==
    IF layout = "plain" THEN JoinWith(tokens, <<" ">>)
    ELSE <<" ">> \o JoinWith(tokens, <<" ", "\t">>) \o <<"\t", " ">>

ExpectedTexts ==
    { TextOf(ts, l) :
        ts \in UNION { [1..n -> Vocabulary] : n \in 0..MaxTokens },
        l \in Layouts }

RecognisedLists == UNION { [1..n -> RecognisedWords] : n \in 0..MaxRecog }

\* the caller of evaluate_attempt: nothing else has happened
InitCaller ==
    /\ rows = << >>
    /\ allocated = {}
    /\ fs = [s \in PathIds |-> NoDir]
    /\ archive = {}
    /\ configured = FALSE
    /\ now = 0
    /\ ticks = 0
    /\ pc = [r \in Requests |-> "idle"]
    /\ fin = [f \in AllFinalizers |-> IdleFin]
    /\ up = [u \in AllUploaders |-> IdleUp]
    /\ sw = IdleSw
    /\ past = <<>>
    /\ attempts = {}
    /\ objects = {}
    /\ tr = IdleTr
    /\ del = IdleDel
    /\ rec = IdleRec
    /\ view = IdleView

InitEval ==
    /\ InitCaller
    /\ fw = IdleFw
    /\ ev \in [ pc : {"ready"}, text : ExpectedTexts,
                recognised : RecognisedLists, accent : Accents,
                aligned : {<<>>}, feedback : {<<>>}, score : {0},
                tip : {Null} ]

\* spoken_index when the loop of lines 75-135 ends: the spoken words consumed
SpokenIndex(feedback) ==
    Cardinality({i \in 1..Len(feedback) : feedback[i].spoken # Null})

RecognisedAfter_consumed(recognised, spoken_index) ==
    SubSeq(recognised, spoken_index + 1, Len(recognised))

\* line 69: spoken_tokens = list(recognised) is a copy, read through the
\* cursor spoken_index; the caller's list is left as it was passed
RecognisedAfter(recognised, spoken_index) == recognised

\* one call evaluate_attempt(text, recognised, accent_target=accent);
\* ev.recognised is the caller's list object
evaluate ==
    /\ ev.pc = "ready"
    /\ \E result \in {evaluate_attempt(ev.text, ev.recognised, ev.accent)} :
       \E left \in {RecognisedAfter(ev.recognised, SpokenIndex(result[1]))} :
       /\ ev' = [ev EXCEPT !.pc = "done", !.feedback = result[1],
                           !.score = result[2], !.recognised = left,
                           !.aligned = Aligned(ev.text, ev.recognised)]
       /\ past' = Append(past,
                     [ text |-> ev.text, recognised |-> ev.recognised,
                       accent |-> ev.accent, feedback |-> result[1],
                       score |-> result[2], left |-> left ])
    /\ UNCHANGED <<rec, view, fw, trainVars, rows, allocated, fs, archive, configured, now,
                   ticks, pc, fin, up, sw>>

NextEval == evaluate

SpecEval == InitEval /\ [][NextEval]_vars

\* ------------------------------------------- inputs of count_filler_words
MaxWords == 3

\* transcripts of at most MaxWords words, written as their runs of letters
SpokenTexts ==
    UNION { [1..n -> {"Um", "kind", "of", "like", "you", "know", "well"}] :
              n \in 0..MaxWords }

InitFiller ==
    /\ InitCaller
    /\ ev = IdleEv
    /\ fw \in [pc : {"ready"}, transcript : SpokenTexts, total : {0}]

\* one call count_filler_words(transcript)
count_call ==
    /\ fw.pc = "ready"
    /\ fw' = [fw EXCEPT !.pc = "done",
                        !.total = count_filler_words(fw.transcript)]
    /\ UNCHANGED <<rec, view, past, ev, trainVars, rows, allocated, fs,
                   archive, configured, now, ticks, pc, fin, up, sw>>

NextFiller == count_call

SpecFiller == InitFiller /\ [][NextFiller]_vars

\* ------------------------------------------------------------- build_tip
\* the index of the first item with the status, 0 when there is none
FirstWith(feedback, status) ==
    LET found == {i \in 1..Len(feedback) : feedback[i].status = status} IN
    IF found = {} THEN 0
    ELSE CHOOSE i \in found : \A j \in found : i <= j

\* the returned string: which template, and the word it names
Tip(template, word) == [template |-> template, word |-> word]

build_tip_first_issue(feedback, accent_target) ==
    LET issues == {i \in 1..Len(feedback) : feedback[i].status # "ok"} IN
    IF issues = {}
    THEN Tip(IF accent_target = "american" THEN "american_great"
             ELSE "british_polished", Null)
    ELSE LET word == feedback[CHOOSE i \in issues : \A j \in issues : i <= j]
         IN IF word.status = "accent_mismatch"
            THEN Tip(IF accent_target = "american" THEN "american_r"
                     ELSE "british_soften", Some(word.text))
            ELSE IF word.issue_code = Some("low_confidence")
            THEN Tip("articulate", Some(word.text))
            ELSE IF word.issue_code = Some("word_missing")
            THEN Tip("include", Some(word.text))
            ELSE Tip("wording", Some(word.text))

\* accent_engine.py lines 194-218
build_tip(feedback, accent_target) ==
    IF FirstWith(feedback, "accent_mismatch") # 0
    THEN LET word == feedback[FirstWith(feedback, "accent_mismatch")] IN
         IF accent_target = "american"
         THEN Tip("american_r", Some(word.text))
         ELSE Tip("british_soften", Some(word.text))
    ELSE IF FirstWith(feedback, "bad") # 0
    THEN LET word == feedback[FirstWith(feedback, "bad")] IN
         IF word.issue_code = Some("low_confidence")
         THEN Tip("articulate", Some(word.text))
         ELSE IF word.issue_code = Some("word_missing")
         THEN Tip("include", Some(word.text))
         ELSE Tip("wording", Some(word.text))
    ELSE IF accent_target = "american"
    THEN Tip("american_great", Null)
    ELSE Tip("british_polished", Null)

\* accent.py line 158: tips = build_tip(feedback_items, accent)
tips ==
    /\ ev.pc = "done"
    /\ ev' = [ev EXCEPT !.pc = "tipped",
                        !.tip = Some(build_tip(ev.feedback, ev.accent))]
    /\ UNCHANGED <<rec, view, fw, past, trainVars, rows, allocated, fs, archive, configured,
                   now, ticks, pc, fin, up, sw>>

NextTips == evaluate \/ tips

SpecTips == InitEval /\ [][NextTips]_vars

\* ----------------------------------- inputs around the accent thresholds
\* one expected token, then "hi" or nothing
RuleTexts ==
    { TextOf(<<t>> \o rest, "plain") :
        t \in { W_hi, W_CarComma, W_bath, W_dashes,
                <<"w", "a", "t", "e", "r">>, <<"c", "i", "t", "y">> },
        rest \in { <<>>, <<W_hi>> } }

\* confidences on both sides of 0.85, 0.88, 0.90 and 0.92
RuleConfidences == {84, 85, 88, 89, 90, 91, 92, 99}

\* nothing recognised, or one word, then "hi" at 0.99 or nothing
RuleRecognised ==
    { <<>> } \cup
    { <<w>> \o rest :
        w \in [ word : { W_hi, W_car, W_bath, <<"w", "a", "t", "e", "r">>,
                         <<"c", "i", "t", "y">> },
                confidence : RuleConfidences ],
        rest \in { <<>>, << [word |-> W_hi, confidence |-> 99] >> } }

InitRules ==
    /\ InitCaller
    /\ fw = IdleFw
    /\ ev \in [ pc : {"ready"}, text : RuleTexts, recognised : RuleRecognised,
                accent : Accents, aligned : {<<>>}, feedback : {<<>>},
                score : {0}, tip : {Null} ]

SpecRules == InitRules /\ [][NextEval]_vars

\* the text of a call made between two calls with the same arguments
OtherText == TextOf(<<W_CarComma>>, "plain")

\* the caller calls again with the same list object, another accent and
\* another text
call_between ==
    /\ ev.pc = "done"
    /\ Len(past) = 1
    /\ \E a \in Accents \ {ev.accent} :
         ev' = [ev EXCEPT !.pc = "ready", !.text = OtherText, !.accent = a,
                          !.aligned = <<>>, !.feedback = <<>>, !.score = 0]
    /\ UNCHANGED <<rec, view, fw, past, trainVars, rows, allocated, fs, archive, configured,
                   now, ticks, pc, fin, up, sw>>

\* the caller repeats the first call: same text, same list object, same
\* accent
call_again ==
    /\ ev.pc = "done"
    /\ Len(past) = 2
    /\ ev' = [ev EXCEPT !.pc = "ready", !.text = past[1].text,
                        !.accent = past[1].accent, !.aligned = <<>>,
                        !.feedback = <<>>, !.score = 0]
    /\ UNCHANGED <<rec, view, fw, past, trainVars, rows, allocated, fs, archive, configured,
                   now, ticks, pc, fin, up, sw>>

NextPure ==
    \/ evaluate
    \/ call_between
    \/ call_again

\* the first call: a padded text of MaxTokens tokens, a list of MaxRecog
\* recognised words or none
InitPure ==
    /\ InitCaller
    /\ fw = IdleFw
    /\ ev \in [ pc : {"ready"},
                text : { TextOf(ts, "padded") :
                           ts \in [1..MaxTokens -> Vocabulary] },
                recognised : [1..MaxRecog -> RecognisedWords] \cup {<<>>},
                accent : Accents, aligned : {<<>>}, feedback : {<<>>},
                score : {0}, tip : {Null} ]

SpecPure == InitPure /\ [][NextPure]_vars

\* ------------------------------------------------ POST /accent/train
\* AccentTranscriber.transcribe_with_words: seconds between polls, and the
\* seconds after which polling gives up
PollInterval == 2
TimeoutSeconds == 120

AttemptIds == {"a1", "a2"}
TrainAccents == Accents \cup {"australian"}
TrainTexts == { TextOf(<<W_hi, W_CarComma>>, "plain") }
AudioUploads == { <<>>, <<"bytes">> }
\* the words of a completed transcript, as the collaborator reports them
WordEntries ==
    { <<>>,
      << [word |-> <<>>, confidence |-> 0],
         [word |-> W_hi, confidence |-> 95],
         [word |-> W_car, confidence |-> 89] >> }

\* uuid.uuid4(): an id no attempt has used
FreshAttemptId ==
    LET used == {a.attempt_id : a \in attempts} \cup objects IN
    IF "a1" \notin used THEN {"a1"}
    ELSE IF "a2" \notin used THEN {"a2"}
    ELSE {}

\* raise HTTPException(...)
TrainFail(why) == tr' = [tr EXCEPT !.pc = "done", !.outcome = why]

EmptyUpload_never(audio_bytes) == FALSE

\* accent.py line 103: not audio_bytes
EmptyUpload(audio_bytes) == audio_bytes = <<>>

\* accent.py lines 101-109: read the upload, reject an empty one, pick the
\* attempt id and the object key
train_begin ==
    /\ tr.pc = "idle"
    /\ \E text \in TrainTexts, accent \in TrainAccents, audio \in AudioUploads :
         LET req == [IdleTr EXCEPT !.text = text, !.accent = accent,
                                   !.audio_bytes = audio,
                                   !.pre = attempts, !.preObjects = objects]
         IN IF EmptyUpload(audio)
            THEN tr' = [req EXCEPT !.pc = "done", !.outcome = "bad_request"]
            ELSE \E id \in FreshAttemptId :
                   tr' = [req EXCEPT !.pc = "store", !.attempt_id = id]
    /\ UNCHANGED <<attempts, objects>>
    /\ UNCHANGED <<rec, view, fw, del, past, ev, rows, allocated, fs, archive, configured,
                   now, ticks, pc, fin, up, sw>>

\* accent.py lines 112-121: storage.store_bytes returns the stored path or
\* raises, which becomes a 502
train_store ==
    /\ tr.pc = "store"
    /\ \/ /\ objects' = objects \cup {tr.attempt_id}
          /\ tr' = [tr EXCEPT !.pc = "transcribe",
                              !.stored_audio_path = Some(tr.attempt_id)]
       \/ /\ objects' = objects
          /\ TrainFail("storage_error")
    /\ UNCHANGED attempts
    /\ UNCHANGED <<rec, view, fw, del, past, ev, rows, allocated, fs, archive, configured,
                   now, ticks, pc, fin, up, sw>>

\* accent.py lines 124-133, accent_transcriber.py lines 34-35: the
\* transcriber is built, the audio is uploaded and the job is created, or
\* one of them fails
train_transcribe ==
    /\ tr.pc = "transcribe"
    /\ \/ tr' = [tr EXCEPT !.pc = "poll", !.jobs = @ + 1]
       \/ TrainFail("transcriber_unconfigured")
       \/ TrainFail("transcription_error")
    /\ UNCHANGED <<attempts, objects>>
    /\ UNCHANGED <<rec, view, fw, del, past, ev, rows, allocated, fs, archive, configured,
                   now, ticks, pc, fin, up, sw>>

\* accent_transcriber.py lines 92-120: one turn of
\* "while time.time() < deadline", tr.waited being the seconds slept so far
train_poll ==
    /\ tr.pc = "poll"
    /\ IF tr.waited < TimeoutSeconds
       THEN \/ \E words \in WordEntries :
                 tr' = [tr EXCEPT !.pc = "score", !.words = words,
                                  !.transcript = Some(words)]
            \/ TrainFail("transcription_error")
            \/ tr' = [tr EXCEPT !.waited = @ + PollInterval]
       ELSE TrainFail("timeout")
    /\ UNCHANGED <<attempts, objects>>
    /\ UNCHANGED <<rec, view, fw, del, past, ev, rows, allocated, fs, archive, configured,
                   now, ticks, pc, fin, up, sw>>

HasWord(entry) == entry.word # <<>>

\* accent.py lines 136-143: entries without a word are dropped
recognised_words(word_entries) == SelectSeq(word_entries, HasWord)

\* accent.py lines 150-168: score the attempt, resolve the user
train_score ==
    /\ tr.pc = "score"
    /\ \E result \in { evaluate_attempt(tr.text, recognised_words(tr.words),
                                        tr.accent) } :
       \E user \in Users \cup {NoUser} :
         tr' = [tr EXCEPT !.pc = "commit", !.feedback = result[1],
                          !.score = result[2], !.db_user_id = user]
    /\ UNCHANGED <<attempts, objects>>
    /\ UNCHANGED <<rec, view, fw, del, past, ev, rows, allocated, fs, archive, configured,
                   now, ticks, pc, fin, up, sw>>

\* accent.py lines 171-180
PracticeAttempt(t) ==
    [ attempt_id |-> t.attempt_id, user_id |-> t.db_user_id,
      accent_target |-> t.accent,
      expected_text |-> t.text, audio_path |-> t.stored_audio_path[1],
      transcript_raw |-> t.transcript, feedback_json |-> t.feedback,
      overall_score |-> t.score ]

\* accent.py lines 182-192: db.add, db.commit, and the response
train_commit ==
    /\ tr.pc = "commit"
    /\ \/ /\ attempts' = attempts \cup {PracticeAttempt(tr)}
          /\ tr' = [tr EXCEPT !.pc = "done", !.outcome = "ok"]
       \/ /\ attempts' = attempts
          /\ TrainFail("server_error")
    /\ UNCHANGED objects
    /\ UNCHANGED <<rec, view, fw, del, past, ev, rows, allocated, fs, archive, configured,
                   now, ticks, pc, fin, up, sw>>

\* the response has been sent
train_return ==
    /\ tr.pc = "done"
    /\ tr' = IdleTr
    /\ UNCHANGED <<attempts, objects>>
    /\ UNCHANGED <<rec, view, fw, del, past, ev, rows, allocated, fs, archive, configured,
                   now, ticks, pc, fin, up, sw>>

NextTrain ==
    \/ train_begin
    \/ train_store
    \/ train_transcribe
    \/ train_poll
    \/ train_score
    \/ train_commit
    \/ train_return

SpecTrain == Init /\ [][NextTrain]_vars

\* ------------------------------------------- DELETE /accent/{attempt_id}
DeleteFail(why) == del' = [del EXCEPT !.pc = "done", !.outcome = why]

Owns_anyone(current_user, row) == TRUE

\* not (row.user_id != current_user.id)
Owns(current_user, row) == row.user_id = current_user

\* select(PracticeAttempt).where(attempt_id == ...): Null or Some(row)
SelectAttempt(attempt_id) ==
    IF \E a \in attempts : a.attempt_id = attempt_id
    THEN Some(CHOOSE a \in attempts : a.attempt_id = attempt_id)
    ELSE Null

DeleteRow_blanked(table, row) ==
    (table \ {row}) \cup {[row EXCEPT !.transcript_raw = Null]}

\* await db.delete(attempt): the whole row leaves the table
DeleteRow(table, row) == table \ {row}

\* accent.py lines 323-332: 401 without a user, 404 unless the attempt
\* exists and belongs to the caller
delete_begin ==
    /\ del.pc = "idle"
    /\ \E current_user \in Callers, attempt_id \in AttemptIds :
         LET req == [IdleDel EXCEPT !.current_user = current_user,
                                    !.attempt_id = attempt_id]
             attempt == SelectAttempt(attempt_id)
         IN IF current_user = NoUser
            THEN del' = [req EXCEPT !.pc = "done",
                                    !.outcome = "unauthenticated"]
            ELSE IF attempt = Null \/ ~Owns(current_user, attempt[1])
            THEN del' = [req EXCEPT !.pc = "done", !.outcome = "not_found"]
            ELSE del' = [req EXCEPT !.pc = "storage", !.attempt = attempt]
    /\ UNCHANGED <<attempts, objects, tr>>
    /\ UNCHANGED <<rec, view, fw, past, ev, rows, allocated, fs, archive, configured, now,
                   ticks, pc, fin, up, sw>>

delete_storage_row_first ==
    /\ del.pc = "storage"
    /\ \/ /\ objects' = objects \ {del.attempt[1].audio_path}
          /\ del' = [del EXCEPT !.pc = "commit"]
          /\ attempts' = attempts
       \/ /\ objects' = objects
          /\ DeleteFail("storage_error")
          /\ attempts' = DeleteRow(attempts, del.attempt[1])
    /\ UNCHANGED tr
    /\ UNCHANGED <<rec, view, fw, past, ev, rows, allocated, fs, archive, configured, now,
                   ticks, pc, fin, up, sw>>

\* accent.py lines 334-340: storage.delete_audio removes the object, or
\* raises and the request ends with the row still in place
delete_storage ==
    /\ del.pc = "storage"
    /\ \/ /\ objects' = objects \ {del.attempt[1].audio_path}
          /\ del' = [del EXCEPT !.pc = "commit"]
       \/ /\ objects' = objects
          /\ DeleteFail("storage_error")
    /\ UNCHANGED <<attempts, tr>>
    /\ UNCHANGED <<rec, view, fw, past, ev, rows, allocated, fs, archive, configured, now,
                   ticks, pc, fin, up, sw>>

\* accent.py lines 342-344: db.delete, db.commit, 204
delete_commit ==
    /\ del.pc = "commit"
    /\ \/ /\ attempts' = DeleteRow(attempts, del.attempt[1])
          /\ del' = [del EXCEPT !.pc = "done", !.outcome = "no_content"]
       \/ /\ attempts' = attempts
          /\ DeleteFail("server_error")
    /\ UNCHANGED <<objects, tr>>
    /\ UNCHANGED <<rec, view, fw, past, ev, rows, allocated, fs, archive, configured, now,
                   ticks, pc, fin, up, sw>>

\* the response has been sent
delete_return ==
    /\ del.pc = "done"
    /\ del' = IdleDel
    /\ UNCHANGED <<attempts, objects, tr>>
    /\ UNCHANGED <<rec, view, fw, past, ev, rows, allocated, fs, archive, configured, now,
                   ticks, pc, fin, up, sw>>

\* train requests and delete requests, one request at a time
NextAttempts ==
    \/ del.pc = "idle" /\ NextTrain
    \/ tr.pc = "idle" /\ delete_begin
    \/ delete_storage
    \/ delete_commit
    \/ delete_return

SpecAttempts == Init /\ [][NextAttempts]_vars

\* ------------------------------------------- DELETE /session/{session_id}
\* sessions.py lines 288-296: 401 without a user, 404 unless the session
\* exists and belongs to the caller
delete_recording_begin ==
    /\ rec.pc = "idle"
    /\ \E current_user \in Callers, session_id \in PathIds :
         LET req == [IdleRec EXCEPT !.current_user = current_user,
                                    !.session_id = session_id]
             session == SelectRow(session_id)
         IN IF current_user = NoUser
            THEN rec' = [req EXCEPT !.pc = "done",
                                    !.outcome = "unauthenticated"]
            ELSE IF session = Null \/ ~Owns(current_user, session[1])
            THEN rec' = [req EXCEPT !.pc = "done", !.outcome = "not_found"]
            ELSE rec' = [req EXCEPT !.session = session,
                           !.pc = IF session[1].audio_path # Null
                                  THEN "storage" ELSE "commit"]
    /\ UNCHANGED <<view, fw, past, trainVars, ev, rows, allocated, fs, archive,
                   configured, now, ticks, pc, fin, up, sw>>

\* sessions.py lines 298-310: the stored audio is deleted (object store) or
\* unlinked (local file, when it exists); a failure ends the request
delete_recording_storage ==
    /\ rec.pc = "storage"
    /\ \/ /\ archive' = archive \ {rec.session[1].audio_path[1]}
          /\ rec' = [rec EXCEPT !.pc = "commit"]
       \/ /\ configured \/ rec.session[1].audio_path[1] \in archive
          /\ archive' = archive
          /\ rec' = [rec EXCEPT !.pc = "done",
                                !.outcome = IF configured THEN "storage_error"
                                            ELSE "unlink_error"]
    /\ UNCHANGED <<view, fw, past, trainVars, ev, rows, allocated, fs,
                   configured, now, ticks, pc, fin, up, sw>>

\* sessions.py lines 312-315: db.delete, db.commit, 204
delete_recording_commit ==
    /\ rec.pc = "commit"
    /\ \/ /\ rows' = db_delete(rows, rec.session_id)
          /\ rec' = [rec EXCEPT !.pc = "done", !.outcome = "no_content"]
       \/ /\ rows' = rows
          /\ rec' = [rec EXCEPT !.pc = "done", !.outcome = "server_error"]
    /\ UNCHANGED <<view, fw, past, trainVars, ev, allocated, fs, archive,
                   configured, now, ticks, pc, fin, up, sw>>

\* the response has been sent
delete_recording_return ==
    /\ rec.pc = "done"
    /\ rec' = IdleRec
    /\ UNCHANGED <<view, fw, past, trainVars, ev, rows, allocated, fs, archive,
                   configured, now, ticks, pc, fin, up, sw>>

\* ------------------------------------------------------- read requests
\* the answer of a read request
Answer(handler, current_user, id, outcome, body) ==
    [ pc |-> "done", handler |-> handler, current_user |-> current_user,
      id |-> id, outcome |-> outcome, body |-> body ]

\* sessions.py lines 202-237: GET /session/{session_id}
session_detail(current_user, session_id) ==
    LET row == SelectRow(session_id) IN
    IF current_user = NoUser THEN <<"unauthenticated", Null>>
    ELSE IF row = Null \/ ~Owns(current_user, row[1])
    THEN <<"not_found", Null>>
    ELSE <<"ok", Some([ final_transcript |-> row[1].final_transcript,
                        duration_seconds |-> row[1].duration_seconds,
                        filler_word_count |-> row[1].filler_word_count,
                        audio_available |-> row[1].audio_path # Null ])>>

\* sessions.py lines 240-279: GET /session/{session_id}/audio; the
\* download may fail
get_session_audio(current_user, session_id) ==
    LET session == SelectRow(session_id) IN
    IF current_user = NoUser THEN { <<"unauthenticated", Null>> }
    ELSE IF session = Null \/ ~Owns(current_user, session[1])
    THEN { <<"not_found", Null>> }
    ELSE IF session[1].audio_path = Null THEN { <<"unavailable", Null>> }
    ELSE IF configured
    THEN { <<"ok", Some(session[1].audio_path[1])>>,
           <<"storage_error", Null>> }
    ELSE IF session[1].audio_path[1] \notin archive
    THEN { <<"unavailable", Null>> }
    ELSE { <<"ok", Some(session[1].audio_path[1])>> }

\* accent.py lines 236-275: GET /accent/{attempt_id}
accent_detail(current_user, attempt_id) ==
    LET row == SelectAttempt(attempt_id) IN
    IF current_user = NoUser THEN <<"unauthenticated", Null>>
    ELSE IF row = Null \/ ~Owns(current_user, row[1])
    THEN <<"not_found", Null>>
    ELSE <<"ok", Some([ accent_target |-> row[1].accent_target,
                        score |-> row[1].overall_score,
                        transcript |-> row[1].transcript_raw,
                        audio_available |-> TRUE ])>>

\* accent.py lines 278-314: GET /accent/{attempt_id}/audio; the download
\* may fail, and fails when the object is gone
accent_audio(current_user, attempt_id) ==
    LET attempt == SelectAttempt(attempt_id) IN
    IF current_user = NoUser THEN { <<"unauthenticated", Null>> }
    ELSE IF attempt = Null \/ ~Owns(current_user, attempt[1])
    THEN { <<"not_found", Null>> }
    ELSE IF attempt[1].audio_path \in objects
    THEN { <<"ok", Some(attempt[1].audio_path)>>, <<"storage_error", Null>> }
    ELSE { <<"storage_error", Null>> }

\* one GET request, from its arrival to its answer
read ==
    /\ view.pc = "idle"
    /\ \E current_user \in Callers :
         \/ \E id \in PathIds :
              \E a \in {session_detail(current_user, id)} :
                view' = Answer("session_detail", current_user, id, a[1], a[2])
         \/ \E id \in PathIds :
              \E a \in get_session_audio(current_user, id) :
                view' = Answer("get_session_audio", current_user, id,
                               a[1], a[2])
         \/ \E id \in AttemptIds :
              \E a \in {accent_detail(current_user, id)} :
                view' = Answer("accent_detail", current_user, id, a[1], a[2])
         \/ \E id \in AttemptIds :
              \E a \in accent_audio(current_user, id) :
                view' = Answer("accent_audio", current_user, id, a[1], a[2])
    /\ UNCHANGED <<rec, fw, past, trainVars, ev, rows, allocated, fs, archive,
                   configured, now, ticks, pc, fin, up, sw>>

\* the response has been sent
read_return ==
    /\ view.pc = "done"
    /\ view' = IdleView
    /\ UNCHANGED <<rec, fw, past, trainVars, ev, rows, allocated, fs, archive,
                   configured, now, ticks, pc, fin, up, sw>>

\* the row a successful finalize_session of a signed-in user leaves
FinalizedRow(user, s, place, t) ==
    WithAudioPath(EditRow(NewRow(user, FALSE, 0), t, Some(3),
                          Some(count_filler_words(t))),
                  StorageKey(place, user, s))

\* the row a successful train_accent request of that caller leaves
StoredAttempt(attempt_id, user, accent) ==
    LET text == CHOOSE t \in TrainTexts : TRUE
        words == CHOOSE w \in WordEntries : w # <<>>
        result == evaluate_attempt(text, recognised_words(words), accent)
    IN PracticeAttempt([IdleTr EXCEPT !.attempt_id = attempt_id,
                                      !.text = text, !.accent = accent,
                                      !.stored_audio_path = Some(attempt_id),
                                      !.transcript = Some(words),
                                      !.words = words,
                                      !.feedback = result[1],
                                      !.score = result[2],
                                      !.db_user_id = user])

\* a database and a store that earlier requests have filled: session s1 of
\* user u1, finalized or still recording; session s2 a guest recording or a
\* second finalized session of u1; attempt a1 of u1 and attempt a2 of a
\* caller without an account
InitStored ==
    /\ configured \in BOOLEAN
    /\ \E place \in {IF configured THEN "s3" ELSE "local"} :
       \E r1 \in { FinalizedRow("u1", "s1", place, <<"Um", "kind", "of", "like">>),
                    NewRow("u1", FALSE, 0) },
          r2 \in { FinalizedRow("u1", "s2", place, <<>>),
                   NewRow(NoUser, TRUE, 0) } :
         /\ rows = [s \in SessionIds |-> IF s = "s1" THEN r1 ELSE r2]
         /\ archive = { r.audio_path[1] : r \in {x \in {r1, r2} : x.audio_path # Null} }
         /\ fs = [s \in PathIds |->
                    IF s \in SessionIds /\ rows[s].audio_path = Null
                    THEN mkdir([p \in PathIds |-> NoDir], s)[s] ELSE NoDir]
    /\ allocated = SessionIds
    /\ now = 0
    /\ ticks = 0
    /\ pc = [r \in Requests |-> "idle"]
    /\ fin = [f \in AllFinalizers |-> IdleFin]
    /\ up = [u \in AllUploaders |-> IdleUp]
    /\ sw = IdleSw
    /\ ev = IdleEv
    /\ past = <<>>
    /\ attempts = { StoredAttempt("a1", "u1", "american"),
                    StoredAttempt("a2", NoUser, "british") }
    /\ objects = {"a1", "a2"}
    /\ tr = IdleTr
    /\ del = IdleDel
    /\ fw = IdleFw
    /\ rec = IdleRec
    /\ view = IdleView

\* the server answers one of these requests at a time
NextAccess ==
    \/ del.pc = "idle" /\ rec.pc = "idle" /\ read
    \/ read_return
    \/ del.pc = "idle" /\ view.pc = "idle" /\ delete_recording_begin
    \/ delete_recording_storage
    \/ delete_recording_commit
    \/ delete_recording_return
    \/ rec.pc = "idle" /\ view.pc = "idle" /\ delete_begin
    \/ delete_storage
    \/ delete_commit
    \/ delete_return

SpecAccess == InitStored /\ [][NextAccess]_vars

\* ------------------------------------------------------------ specification
\* the HTTP handlers of routers/sessions.py, one request at a time
Handlers ==
    \/ AllIdle /\ start_session
    \/ \E u \in Uploaders : Alone(u) /\ chunk_open(u)
    \/ \E u \in Uploaders : Alone(u) /\ chunk_write(u)
    \/ \E f \in Finalizers : Alone(f) /\ finalize_begin(f)
    \/ \E f \in Finalizers : Alone(f) /\ transcode(f)
    \/ \E f \in Finalizers : Alone(f) /\ probe(f)
    \/ \E f \in Finalizers : Alone(f) /\ transcribe(f)
    \/ \E f \in Finalizers : Alone(f) /\ persist(f)
    \/ \E f \in Finalizers : Alone(f) /\ upload(f)
    \/ \E f \in Finalizers : Alone(f) /\ commit(f)
    \/ \E f \in Finalizers : Alone(f) /\ purge_commit(f)
    \/ \E f \in Finalizers : Alone(f) /\ respond(f)
    \/ \E f \in Finalizers : Alone(f) /\ finalize_return(f)

Next == Handlers

Spec == Init /\ [][Next]_vars

\* the handlers, the clock and cleanup_expired_sessions run by a periodic
\* task
NextSweep ==
    \/ Handlers
    \/ AllIdle /\ Tick
    \/ Alone(Sweeper) /\ cleanup_select
    \/ Alone(Sweeper) /\ cleanup_commit
    \/ Alone(Sweeper) /\ cleanup_return

SpecSweep == Init /\ [][NextSweep]_vars

\* the event loop runs a handler only while no other handler is inside a
\* blocking call
LoopFree(r) == \A f \in AllFinalizers \ {r} : ~Polling(f)

\* the steps of one finalize_session request on the event loop
FinalizeStep(f) ==
    \/ LoopFree(f) /\ finalize_begin(f)
    \/ LoopFree(f) /\ transcode(f)
    \/ LoopFree(f) /\ probe(f)
    \/ LoopFree(f) /\ poll_wait(f)
    \/ LoopFree(f) /\ transcribe(f)
    \/ LoopFree(f) /\ persist(f)
    \/ LoopFree(f) /\ upload(f)
    \/ LoopFree(f) /\ commit(f)
    \/ LoopFree(f) /\ purge_commit(f)
    \/ LoopFree(f) /\ respond(f)
    \/ LoopFree(f) /\ finalize_return(f)

\* the steps of one upload_chunk request on the event loop
UploadStep(u) ==
    \/ LoopFree(u) /\ chunk_open(u)
    \/ LoopFree(u) /\ chunk_write(u)

\* chunk uploads interleaved at their await points
NextChunks ==
    \/ AllIdle /\ start_session
    \/ \E u \in AllUploaders : UploadStep(u)

SpecChunks == Init /\ [][NextChunks]_vars

\* one finalize request and one chunk upload interleaved at their await
\* points
NextBlock ==
    \/ AllIdle /\ start_session
    \/ \E u \in Uploaders : UploadStep(u)
    \/ \E f \in Finalizers : FinalizeStep(f)

SpecBlock == Init /\ [][NextBlock]_vars

\* two finalize requests on one session, interleaved at their await
\* points; the session is started and its chunks are sent while no other
\* request is in progress
NextOverlap ==
    \/ AllIdle /\ allocated = {} /\ start_session
    \/ \E u \in Uploaders : Alone(u) /\ chunk_open(u)
    \/ \E u \in Uploaders : Alone(u) /\ chunk_write(u)
    \/ \E f \in AllFinalizers : FinalizeStep(f)

SpecOverlap == Init /\ [][NextOverlap]_vars

\* the steps of a finalize request that has been received
FinalizeRun(f) ==
    \/ Alone(f) /\ transcode(f)
    \/ Alone(f) /\ probe(f)
    \/ Alone(f) /\ poll_wait(f)
    \/ Alone(f) /\ transcribe(f)
    \/ Alone(f) /\ persist(f)
    \/ Alone(f) /\ upload(f)
    \/ Alone(f) /\ commit(f)
    \/ Alone(f) /\ purge_commit(f)
    \/ Alone(f) /\ respond(f)
    \/ Alone(f) /\ finalize_return(f)

\* one request at a time, the polling loop of transcribe_audio step by
\* step; a request that has been received keeps running
NextPoll ==
    \/ AllIdle /\ start_session
    \/ \E u \in Uploaders : Alone(u) /\ chunk_open(u)
    \/ \E u \in Uploaders : Alone(u) /\ chunk_write(u)
    \/ \E f \in Finalizers : Alone(f) /\ finalize_begin(f)
    \/ \E f \in Finalizers : FinalizeRun(f)

SpecPoll ==
    /\ Init
    /\ [][NextPoll]_vars
    /\ \A f \in Finalizers : WF_vars(FinalizeRun(f))

\* a finalize request is between its first and its last step
Running(f) == pc[f] \notin {"idle", "done"}

\* cleanup_expired_sessions started while a finalize request is in
\* progress and interleaved with it at the await points; one session, its
\* chunks sent beforehand; the two calls return once both have finished
NextRace ==
    \/ AllIdle /\ allocated = {} /\ start_session
    \/ AllIdle /\ Tick
    \/ \E u \in Uploaders : Alone(u) /\ chunk_open(u)
    \/ \E u \in Uploaders : Alone(u) /\ chunk_write(u)
    \/ \E f \in Finalizers : AllIdle /\ finalize_begin(f)
    \/ \E f \in Finalizers : LoopFree(f) /\ transcode(f)
    \/ \E f \in Finalizers : LoopFree(f) /\ probe(f)
    \/ \E f \in Finalizers : LoopFree(f) /\ poll_wait(f)
    \/ \E f \in Finalizers : LoopFree(f) /\ transcribe(f)
    \/ \E f \in Finalizers : LoopFree(f) /\ persist(f)
    \/ \E f \in Finalizers : LoopFree(f) /\ upload(f)
    \/ \E f \in Finalizers : LoopFree(f) /\ commit(f)
    \/ \E f \in Finalizers : LoopFree(f) /\ purge_commit(f)
    \/ \E f \in Finalizers : LoopFree(f) /\ respond(f)
    \/ \E f \in Finalizers :
         pc[Sweeper] \in {"idle", "done"} /\ finalize_return(f)
    \/ /\ \E f \in Finalizers : Running(f)
       /\ LoopFree(Sweeper)
       /\ cleanup_select
    \/ LoopFree(Sweeper) /\ cleanup_commit
    \/ (\A f \in Finalizers : ~Running(f)) /\ cleanup_return

SpecRace == Init /\ [][NextRace]_vars

\* the handlers one at a time, and requests that name a session id no
\* create_session has returned
NextStray ==
    \/ Handlers
    \/ \E u \in Uploaders, s \in UnknownIds : Alone(u) /\ chunk_begin(u, s)
    \/ \E f \in Finalizers, s \in UnknownIds : Alone(f) /\ finalize_on(f, s)

SpecStray == Init /\ [][NextStray]_vars

\* ------------------------------------------------------------------ claims
\* what a finished finalize request was about
FinDone(f, why) == pc[f] = "done" /\ fin[f].outcome = why
WasGuest(f) == fin[f].sid \in DOMAIN fin[f].pre /\ fin[f].pre[fin[f].sid].is_guest
WasUser(f) == fin[f].sid \in DOMAIN fin[f].pre /\ ~fin[f].pre[fin[f].sid].is_guest
Stored(s) == { k \in archive : k.sid = s }

C2_PurgeOnlyAfterTranscription ==
    /\ [](\A f \in Finalizers :
            FinDone(f, "ok") /\ WasGuest(f) =>
                /\ fin[f].response =
                     Some([final |-> fin[f].transcript[1],
                           filler_word_count |->
                               count_filler_words(fin[f].transcript[1]),
                           audio_url |-> Null])
                /\ fin[f].sid \notin DOMAIN rows
                /\ Stored(fin[f].sid) = {})
    /\ [][\A f \in Finalizers :
            (/\ WasGuest(f)
             /\ \/ fin[f].sid \in DOMAIN rows /\ fin[f].sid \notin DOMAIN rows'
                \/ fs[fin[f].sid].dir /\ ~fs'[fin[f].sid].dir)
            => fin[f].transcript # Null /\ fin[f].outcome = "none"]_vars

C2_Witness ==
    \E f \in Finalizers :
        /\ FinDone(f, "ok") /\ WasGuest(f)
        /\ fin[f].response # Null
        /\ fin[f].response[1].final = <<"Um", "kind", "of", "like">>
        /\ fin[f].response[1].filler_word_count = 3
        /\ fin[f].sid \notin DOMAIN rows

\* C3 as stated: every non-guest row has both final_transcript and
\* audio_path set (after a successful finalize, empty transcript included)
\* or neither (finalize failed); never exactly one of the two.
C3_Original ==
    /\ \A s \in DOMAIN rows :
         ~rows[s].is_guest =>
            ((rows[s].final_transcript # Null) <=> (rows[s].audio_path # Null))
    /\ \A f \in Finalizers :
         FinDone(f, "ok") /\ WasUser(f) =>
            /\ rows[fin[f].sid].final_transcript # Null
            /\ rows[fin[f].sid].audio_path # Null

\* C3 amended: a successful non-guest finalize leaves audio_path set to a
\* stored object and final_transcript equal to the transcript text, NULL
\* when the text is empty; a failed one leaves the row as it was; so a row
\* with final_transcript set always has audio_path set.
C3_TranscriptImpliesAudio ==
    /\ \A s \in DOMAIN rows :
         ~rows[s].is_guest /\ rows[s].final_transcript # Null
            => rows[s].audio_path # Null
    /\ \A f \in Finalizers :
         FinDone(f, "ok") /\ WasUser(f) =>
            /\ rows[fin[f].sid].audio_path # Null
            /\ rows[fin[f].sid].audio_path[1] \in archive
            /\ rows[fin[f].sid].final_transcript =
                 (IF fin[f].transcript[1] = <<>> THEN Null
                  ELSE Some(fin[f].transcript[1]))
    /\ \A f \in Finalizers :
         pc[f] = "done" /\ fin[f].outcome # "ok" /\ WasUser(f) =>
            rows[fin[f].sid] = fin[f].pre[fin[f].sid]

C3_Witness ==
    \E f \in Finalizers :
        /\ FinDone(f, "ok") /\ WasUser(f)
        /\ fin[f].transcript = Some(<<>>)
        /\ rows[fin[f].sid].final_transcript = Null
        /\ rows[fin[f].sid].audio_path # Null

\* C4: when the storage write of a non-guest finalize raises, the row's
\* final_transcript, audio_path, duration_seconds and filler_word_count are
\* what they were before the call, and the caller gets an error, not a
\* response body.
C4_StorageFailureRollsBack ==
    \A f \in Finalizers :
        /\ pc[f] = "done" /\ WasUser(f)
        /\ fin[f].outcome \in {"storage_error", "server_error"}
        => /\ fin[f].sid \in DOMAIN rows
           /\ rows[fin[f].sid] = fin[f].pre[fin[f].sid]
           /\ fin[f].response = Null

C4_Witness ==
    \E f \in Finalizers :
        /\ FinDone(f, "storage_error") /\ WasUser(f)
        /\ fin[f].pre[fin[f].sid].final_transcript # Null
        /\ fin[f].row # Null
        /\ fin[f].row[1] # fin[f].pre[fin[f].sid]

C6_TranscodeFailureIsFatal ==
    \A f \in Finalizers :
        FinDone(f, "ffmpeg_error") =>
            /\ ~fin[f].touched
            /\ rows = fin[f].pre
            /\ fin[f].response = Null
            /\ fs[fin[f].sid] = fin[f].preFs
            /\ exists_webm(fs, fin[f].sid)

C6_Witness ==
    \E f \in Finalizers :
        /\ FinDone(f, "ffmpeg_error")
        /\ fin[f].sid \in DOMAIN rows
        /\ Len(fs[fin[f].sid].webm[1]) > 0

C8_SweepRemovesExactlyExpiredGuests ==
    pc[Sweeper] = "done" /\ sw.outcome = "ok" =>
        \A s \in SessionIds :
            IF /\ s \in DOMAIN sw.pre
               /\ sw.pre[s].is_guest
               /\ now - sw.pre[s].created_at > sw.max_age
               /\ sw.pre[s].final_transcript = Null
            THEN s \notin DOMAIN rows /\ fs[s] = NoDir
            ELSE /\ (s \in DOMAIN rows) <=> (s \in DOMAIN sw.pre)
                 /\ s \in DOMAIN rows => rows[s] = sw.pre[s]
                 /\ fs[s] = sw.preFs[s]

C8_Witness ==
    /\ pc[Sweeper] = "done" /\ sw.outcome = "ok"
    /\ sw.max_age = 24
    /\ \E s, t \in DOMAIN sw.pre :
        /\ sw.pre[s].is_guest /\ sw.pre[t].is_guest
        /\ now - sw.pre[s].created_at = 25
        /\ now - sw.pre[t].created_at = 1
        /\ s \notin DOMAIN rows
        /\ t \in DOMAIN rows

\* the whitespace-delimited tokens of a text, found by position: a token
\* starts at a non-space character that is first or follows a space
TokenStarts(text) ==
    { i \in 1..Len(text) :
        ~IsSpace(text[i]) /\ (i = 1 \/ IsSpace(text[i - 1])) }
TokenEnd(text, i) ==
    CHOOSE e \in i..Len(text) :
        /\ \A j \in i..e : ~IsSpace(text[j])
        /\ e = Len(text) \/ IsSpace(text[e + 1])
KthStart(text, k) ==
    CHOOSE i \in TokenStarts(text) :
        Cardinality({ j \in TokenStarts(text) : j < i }) = k - 1
KthToken(text, k) ==
    SubSeq(text, KthStart(text, k), TokenEnd(text, KthStart(text, k)))

\* C9: the feedback of evaluate_attempt has one item per whitespace-
\* delimited token of the expected text, in the order of the text, and the
\* item's text is that token, for every recognised-word list and accent.
C9_OneItemPerToken ==
    ev.pc = "done" =>
        /\ Len(ev.feedback) = Cardinality(TokenStarts(ev.text))
        /\ \A k \in 1..Len(ev.feedback) :
             ev.feedback[k].text = KthToken(ev.text, k)

C9_Witness ==
    /\ ev.pc = "done"
    /\ ev.text # strip(ev.text)
    /\ Len(ev.feedback) = 2
    /\ ev.feedback[1].text = W_dashes
    /\ ev.feedback[2].text = W_CarComma
    /\ Len(ev.recognised) = 2

\* C10: the score of evaluate_attempt is between 0.00 and 100.00
\* (hundredths: 0..10000), also when the expected text has pure-punctuation
\* tokens beside words.
C10_ScoreInRange ==
    ev.pc = "done" => ev.score \in 0..10000

C12_AppendsMutuallyExclusive ==
    \A u, v \in AllUploaders :
        u # v /\ pc[u] = "write" /\ pc[v] = "write"
            => up[u].sid # up[v].sid

\* C13: while a finalize request is in its transcode step or inside its
\* transcription polling, a chunk upload for another session can be
\* scheduled: its handler is able to start.
C13_UploadsNeverBlocked ==
    \A f \in Finalizers, u \in Uploaders, s \in allocated :
        (/\ pc[f] = "transcode" \/ Polling(f)
         /\ s # fin[f].sid
         /\ pc[u] = "idle"
         /\ fs[s].webm = Null)
        => ENABLED (LoopFree(u) /\ chunk_begin(u, s))

\* C14: the finalize steps of a session are never in progress in two
\* requests at once: two finalize requests that are both between their
\* start and their response work on different sessions.
C14_OneFinalizeAtATime ==
    \A f, g \in AllFinalizers :
        f # g /\ Running(f) /\ Running(g)
            => fin[f].sid # fin[g].sid

\* C15: transcription polling always terminates: a finalize request that
\* has reached its transcription step eventually leaves it (completed,
\* error, or a timeout).
C15_PollingTerminates ==
    \A f \in Finalizers :
        (pc[f] = "transcribe") ~> (pc[f] # "transcribe")

TrainDone(why) == tr.pc = "done" /\ tr.outcome = why

\* C16: a train request with empty audio is rejected with a validation
\* error before any pipeline work: no object is stored, no transcription
\* job is started, no attempt row is created, no attempt id is taken.
C16_EmptyAudioRejected ==
    tr.pc # "idle" /\ tr.audio_bytes = <<>> =>
        /\ TrainDone("bad_request")
        /\ objects = tr.preObjects
        /\ attempts = tr.pre
        /\ tr.jobs = 0
        /\ tr.stored_audio_path = Null

C16_Witness ==
    /\ TrainDone("bad_request")
    /\ tr.audio_bytes = <<>>
    /\ attempts # {}
    /\ objects # {}

\* C17: every persisted attempt has accent_target american or british: a
\* train request with another accent target is rejected and creates no row.
C17_AccentTargetIsEnum ==
    \A a \in attempts : a.accent_target \in {"american", "british"}

\* C18: a train request that fails on an upstream step (storage,
\* transcription, timeout) leaves no attempt row and no audio object of
\* the attempt behind.
C18_NoPartialPersistence ==
    tr.pc = "done"
    /\ tr.outcome \in {"storage_error", "transcription_error", "timeout"}
        => /\ attempts = tr.pre
           /\ objects = tr.preObjects

\* C19: upload_chunk or finalize_session called with a session id that
\* create_session never returned changes nothing: the id has no row, no
\* working directory and no buffer file.
C19_UnknownIdMutatesNothing ==
    \A s \in UnknownIds : s \notin DOMAIN rows /\ fs[s] = NoDir

\* C20: the row of a non-guest session that has been finalized with
\* success (audio_path set) is terminal: no later step of an upload_chunk
\* or finalize_session request changes its final_transcript, audio_path,
\* duration_seconds or filler_word_count.
C20_FinalizedRowIsTerminal ==
    [][\A s \in DOMAIN rows :
          (~rows[s].is_guest /\ rows[s].audio_path # Null /\ s \in DOMAIN rows')
          => /\ rows'[s].final_transcript = rows[s].final_transcript
             /\ rows'[s].audio_path = rows[s].audio_path
             /\ rows'[s].duration_seconds = rows[s].duration_seconds
             /\ rows'[s].filler_word_count = rows[s].filler_word_count]_vars

\* C21: a practice_attempts row is created by exactly one commit of the
\* train request with all of its fields set, no later step changes a field
\* of an existing row, and the only later change is the deletion of the
\* whole row.
C21_AttemptRowsAreImmutable ==
    [][ /\ \A a \in attempts :
             \/ a \in attempts'
             \/ \A b \in attempts' : b.attempt_id # a.attempt_id
        /\ \A b \in attempts' \ attempts :
             /\ tr.pc = "commit"
             /\ b = PracticeAttempt(tr)
             /\ b.accent_target \in TrainAccents
             /\ b.expected_text \in TrainTexts
             /\ b.audio_path = tr.attempt_id
             /\ b.transcript_raw # Null
             /\ b.feedback_json # <<>>
             /\ b.overall_score \in 0..10000 ]_vars

C21_Witness ==
    /\ del.pc = "done"
    /\ del.outcome = "no_content"
    /\ del.attempt[1] \notin attempts
    /\ attempts # {}

\* C23: a failure of the duration probe is not fatal: the probe step always
\* hands over to transcription, changing nothing but the duration local
\* (None on failure), and a successful non-guest finalize stores that
\* duration, NULL included, with the transcript and the audio path.
C23_ProbeFailureIsNotFatal ==
    /\ [][\A f \in Finalizers :
            pc[f] = "probe" /\ pc'[f] # "probe" =>
               /\ pc'[f] = "transcribe"
               /\ fin'[f] = [fin[f] EXCEPT !.duration = fin'[f].duration]
               /\ fin'[f].duration \in {Null} \cup {Some(n) : n \in Durations}
               /\ UNCHANGED <<rows, fs, archive>>]_vars
    /\ [](\A f \in Finalizers :
            FinDone(f, "ok") /\ WasUser(f) =>
               /\ rows[fin[f].sid].duration_seconds = fin[f].duration
               /\ rows[fin[f].sid].audio_path # Null
               /\ fin[f].response # Null)

C23_Witness ==
    \E f \in Finalizers :
        /\ FinDone(f, "ok") /\ WasUser(f)
        /\ fin[f].duration = Null
        /\ rows[fin[f].sid].duration_seconds = Null
        /\ rows[fin[f].sid].audio_path # Null
        /\ rows[fin[f].sid].final_transcript # Null

\* C24: in every reachable state every session row has
\* is_guest = (user_id is NULL): start_session inserts it so, and no later
\* step changes either column.
C24_GuestIffNoOwner ==
    \A s \in DOMAIN rows : rows[s].is_guest = (rows[s].user_id = NoUser)

C24_Witness ==
    \E s, t \in DOMAIN rows :
        /\ rows[s].user_id \in Users /\ ~rows[s].is_guest
        /\ rows[s].audio_path # Null
        /\ rows[t].user_id = NoUser /\ rows[t].is_guest

\* the call of evaluate_attempt has returned
EvDone == ev.pc = "done"

\* the list the caller passed to the call
Passed == past[Len(past)].recognised

\* the stripped form of the expected token of a feedback item
StrippedOf(item) == strip_punct(item.text)

\* how many of the first i expected tokens have a non-empty stripped form
WordsUpTo(i) ==
    Cardinality({j \in 1..i : StrippedOf(ev.feedback[j]) # <<>>})

\* ends in "r" or is in the rhotic lexicon
Rhotic(word) ==
    word # <<>> /\ (word[Len(word)] = "r" \/ word \in ACCENT_R_SENSITIVE)

\* the recognised word of the item, normalised, is the expected word
HeardRight(item) ==
    item.spoken # Null /\ strip_punct(item.spoken[1]) = StrippedOf(item)

\* C22: under the american target, a rhotic expected token whose aligned
\* recognised word equals it ends accent_mismatch when the confidence is
\* below 0.92 and ok when it is 0.92 or more; a token that is neither
\* rhotic nor broad-A is never accent_mismatch. "car" at 0.90 gives
\* accent_mismatch and score 0.00; two plain words at 0.99 give ok, ok and
\* score 100.00.
C22_AmericanRhoticRule ==
    EvDone /\ ev.accent = "american" =>
        /\ \A i \in 1..Len(ev.feedback) :
             LET item == ev.feedback[i]
                 word == StrippedOf(item)
             IN /\ Rhotic(word) /\ HeardRight(item) =>
                     item.status = (IF item.confidence[1] < 92
                                    THEN "accent_mismatch" ELSE "ok")
                /\ ~Rhotic(word) /\ word \notin BRITISH_BROAD_A =>
                     item.status # "accent_mismatch"
        /\ ev.text = W_CarComma
             /\ Passed = << [word |-> W_car, confidence |-> 90] >>
             => ev.feedback[1].status = "accent_mismatch" /\ ev.score = 0
        /\ ev.text = TextOf(<<W_hi, W_hi>>, "plain")
             /\ Passed = << [word |-> W_hi, confidence |-> 99],
                            [word |-> W_hi, confidence |-> 99] >>
             => /\ ev.feedback[1].status = "ok"
                /\ ev.feedback[2].status = "ok"
                /\ ev.score = 10000

C22_Witness ==
    /\ EvDone /\ ev.accent = "american"
    /\ ev.text = W_CarComma
    /\ Passed = << [word |-> W_car, confidence |-> 84] >>
    /\ ev.aligned[1].issue_code = Some("low_confidence")
    /\ ev.feedback[1].status = "accent_mismatch"
    /\ ev.score = 0

\* C25: the k-th expected token with a non-empty stripped form is compared
\* with exactly the k-th recognised word when there is one, and with none
\* otherwise; so the cursor only moves forward and no recognised word is
\* used for two tokens.
C25_OneToOneAlignment ==
    EvDone =>
        \A i \in 1..Len(ev.feedback) :
            LET item == ev.feedback[i]
                k == WordsUpTo(i)
            IN StrippedOf(item) # <<>> =>
                 IF k <= Len(Passed)
                 THEN /\ item.spoken = Some(Passed[k].word)
                      /\ item.confidence = Some(Passed[k].confidence)
                 ELSE item.spoken = Null /\ item.confidence = Null

C25_Witness ==
    /\ EvDone
    /\ Len(ev.feedback) = 2
    /\ Len(Passed) = 2
    /\ Passed[1].word # Passed[2].word
    /\ ev.feedback[1].spoken = Some(Passed[1].word)
    /\ ev.feedback[2].spoken = Some(Passed[2].word)
    /\ ev.feedback[2].status = "accent_mismatch"

\* C26: an expected token whose stripped form is empty gets status ok with
\* no spoken word and no confidence, uses up no recognised word (the next
\* token is compared with the word the cursor was already on), and is left
\* as it is by the accent pass, for both accent targets.
C26_PunctuationIsFree ==
    EvDone =>
        \A i \in 1..Len(ev.feedback) :
            LET item == ev.feedback[i] IN
            StrippedOf(item) = <<>> =>
                /\ item.status = "ok"
                /\ item.spoken = Null
                /\ item.confidence = Null
                /\ item.issue_code = Null
                /\ item = ev.aligned[i]
                /\ i < Len(ev.feedback)
                     /\ StrippedOf(ev.feedback[i + 1]) # <<>>
                     /\ WordsUpTo(i) < Len(Passed)
                     => ev.feedback[i + 1].spoken
                          = Some(Passed[WordsUpTo(i) + 1].word)

C26_Witness ==
    /\ EvDone
    /\ ev.accent = "british"
    /\ Len(ev.feedback) = 2
    /\ StrippedOf(ev.feedback[1]) = <<>>
    /\ ev.feedback[1].status = "ok"
    /\ Len(Passed) = 1
    /\ ev.feedback[2].spoken = Some(Passed[1].word)

\* C27: before the accent pass a non-punctuation token is bad/word_missing
\* when the cursor is exhausted (and is still bad/word_missing in the final
\* feedback), ok when the normalised forms are equal and the confidence is
\* at least 0.85, bad/low_confidence when they are equal and it is below
\* 0.85, and bad/mismatch when they differ.
C27_AlignmentClasses ==
    EvDone =>
        \A i \in 1..Len(ev.aligned) :
            LET item == ev.aligned[i]
                word == StrippedOf(item)
                k == WordsUpTo(i)
            IN word # <<>> =>
                 IF k > Len(Passed)
                 THEN /\ item.status = "bad"
                      /\ item.issue_code = Some("word_missing")
                      /\ ev.feedback[i].status = "bad"
                      /\ ev.feedback[i].issue_code = Some("word_missing")
                 ELSE IF strip_punct(Passed[k].word) = word
                 THEN IF Passed[k].confidence >= 85
                      THEN item.status = "ok" /\ item.issue_code = Null
                      ELSE /\ item.status = "bad"
                           /\ item.issue_code = Some("low_confidence")
                 ELSE /\ item.status = "bad"
                      /\ item.issue_code = Some("mismatch")

C27_Witness ==
    /\ EvDone
    /\ Len(ev.aligned) = 2
    /\ Len(Passed) = 1
    /\ Passed[1].confidence = 84
    /\ ev.aligned[1].issue_code = Some("low_confidence")
    /\ ev.aligned[2].issue_code = Some("word_missing")
    /\ ev.feedback[2].issue_code = Some("word_missing")

\* C28: the accent pass never sets a status to ok: an item that is not ok
\* after the alignment is not ok in the final feedback, and the final
\* number of ok items is at most the number before the pass.
C28_AccentPassOnlyStricter ==
    EvDone =>
        /\ Len(ev.feedback) = Len(ev.aligned)
        /\ \A i \in 1..Len(ev.feedback) :
             ev.aligned[i].status # "ok" => ev.feedback[i].status # "ok"
        /\ ok_count(ev.feedback) <= ok_count(ev.aligned)

C28_Witness ==
    /\ EvDone
    /\ ok_count(ev.feedback) = 1
    /\ \E i \in 1..Len(ev.feedback) :
         /\ ev.aligned[i].status = "bad"
         /\ ev.feedback[i].status = "accent_mismatch"

\* C29: every item with final status accent_mismatch is a correctly
\* recognised word (its recognised word, normalised, equals the expected
\* token's stripped form), and an item the alignment made bad/mismatch is
\* never accent_mismatch, for both accent targets.
C29_AccentMismatchIsHeardRight ==
    EvDone =>
        \A i \in 1..Len(ev.feedback) :
            /\ ev.feedback[i].status = "accent_mismatch"
                 => HeardRight(ev.feedback[i])
            /\ ev.aligned[i].issue_code = Some("mismatch")
                 => ev.feedback[i].status # "accent_mismatch"

\* C30: under the british target a flap-T token with confidence above 0.88
\* and a rhotic token with confidence above 0.90 become accent_mismatch; a
\* token matching neither rule, or at or below its threshold, keeps its
\* alignment status; the broad-A rule is never applied.
C30_BritishRules ==
    EvDone /\ ev.accent = "british" =>
        \A i \in 1..Len(ev.feedback) :
            LET item == ev.feedback[i]
                word == StrippedOf(item)
                flap == /\ item.spoken # Null
                        /\ word \in BRITISH_FLAP_WORDS
                        /\ item.confidence[1] > 88
                soft == /\ item.spoken # Null
                        /\ Rhotic(word)
                        /\ item.confidence[1] > 90
            IN /\ flap \/ soft => item.status = "accent_mismatch"
               /\ ~(flap \/ soft) => item = ev.aligned[i]
               /\ item.issue_code # Some("american_broad_a")

C30_Witness ==
    /\ EvDone /\ ev.accent = "british"
    /\ ev.text = <<"c", "i", "t", "y">>
    /\ Passed = << [word |-> <<"c", "i", "t", "y">>, confidence |-> 89] >>
    /\ ev.aligned[1].status = "ok"
    /\ ev.feedback[1].status = "accent_mismatch"
    /\ ev.feedback[1].issue_code = Some("british_flap_t")

\* C31: the tip follows a strict priority over the final feedback: the
\* accent template naming the first accent_mismatch item when there is one;
\* otherwise the template keyed by the issue of the first bad item, naming
\* it; otherwise the generic encouragement of the accent target. An earlier
\* bad item never wins over a later accent_mismatch item.
C31_TipPriority ==
    ev.pc = "tipped" =>
        LET fb == ev.feedback
            flagged == {i \in 1..Len(fb) : fb[i].status = "accent_mismatch"}
            bad == {i \in 1..Len(fb) : fb[i].status = "bad"}
            tip == ev.tip[1]
        IN IF flagged # {}
           THEN /\ \E i \in flagged :
                     /\ \A j \in flagged : i <= j
                     /\ tip.word = Some(fb[i].text)
                /\ tip.template = (IF ev.accent = "american"
                                   THEN "american_r" ELSE "british_soften")
           ELSE IF bad # {}
           THEN \E i \in bad :
                  /\ \A j \in bad : i <= j
                  /\ tip.word = Some(fb[i].text)
                  /\ tip.template =
                       (CASE fb[i].issue_code = Some("word_missing")
                               -> "include"
                          [] fb[i].issue_code = Some("low_confidence")
                               -> "articulate"
                          [] fb[i].issue_code = Some("mismatch")
                               -> "wording")
           ELSE /\ tip.word = Null
                /\ tip.template = (IF ev.accent = "american"
                                   THEN "american_great"
                                   ELSE "british_polished")

C31_Witness ==
    /\ ev.pc = "tipped"
    /\ Len(ev.feedback) = 2
    /\ ev.feedback[1].status = "bad"
    /\ ev.feedback[2].status = "accent_mismatch"
    /\ ev.feedback[1].text # ev.feedback[2].text
    /\ ev.tip[1].word = Some(ev.feedback[2].text)

\* C32: the filler count of a transcript is the number of pairs of a
\* filler phrase and a start position of the lower-cased word stream at
\* which the phrase occurs contiguously; occurrences of different phrases
\* that share words are each counted ("kind of like" counts 2) and an
\* empty transcript counts 0.
C32_FillerCountIsSumOfOccurrences ==
    fw.pc = "done" =>
        LET words == fw.transcript
            low(w) == IF w = "Um" THEN "um" ELSE w
            hits == { h \in (1..Len(FILLER_PHRASES)) \X (1..Len(words)) :
                        LET phrase == FILLER_PHRASES[h[1]] IN
                        /\ h[2] + Len(phrase) - 1 <= Len(words)
                        /\ \A j \in 1..Len(phrase) :
                             low(words[h[2] + j - 1]) = phrase[j] }
        IN /\ fw.total = Cardinality(hits)
           /\ words = <<"kind", "of", "like">> => fw.total = 2
           /\ words = <<>> => fw.total = 0

C32_Witness ==
    /\ fw.pc = "done"
    /\ fw.transcript = <<"Um", "like", "like">>
    /\ fw.total = 3

\* C33: during the persist-or-purge step no part of the session's working
\* buffer (captured container, transcoded audio) is deleted before the
\* persistence path has finished: while the storage write, the commit of a
\* non-guest row or the commit of a guest row's deletion is still pending,
\* the container and the transcoded audio are in the working directory.
C33_BufferKeptUntilPersisted ==
    \A f \in Finalizers :
        pc[f] \in {"upload", "commit", "purge_commit"} =>
            /\ fs[fin[f].sid].webm # Null
            /\ fs[fin[f].sid].wav

\* C34: in every reachable state no guest row has a final_transcript,
\* audio_path, duration_seconds or filler_word_count, and no audio of a
\* guest session is in the object store or the local archive, whatever
\* create, append, finalize and sweep operations have run.
C34_GuestArtifactsNeverRetained ==
    /\ \A s \in DOMAIN rows :
         rows[s].is_guest =>
            /\ rows[s].final_transcript = Null
            /\ rows[s].audio_path = Null
            /\ rows[s].duration_seconds = Null
            /\ rows[s].filler_word_count = Null
    /\ \A k \in archive :
         /\ k.owner # "guests"
         /\ k.sid \in DOMAIN rows
         /\ ~rows[k.sid].is_guest

C34_Witness ==
    /\ archive # {}
    /\ \E f \in Finalizers :
         /\ FinDone(f, "ok") /\ WasGuest(f)
         /\ fin[f].sid \notin DOMAIN rows
         /\ fin[f].transcript # Null
         /\ ticks > 0

\* C35: when cleanup_expired_sessions runs interleaved with an in-progress
\* finalize of the same expired guest session, no chunk arriving, and its
\* commit or the finalize succeeds, then once both have finished the row and
\* the working directory are gone and no transcript or audio of the session
\* is stored; a finalize that finds the row already deleted removes the
\* working directory and goes on to its response.
C35_SweepRacingFinalizeLeavesNothing ==
    /\ [](\A f \in Finalizers :
            /\ pc[f] = "done" /\ pc[Sweeper] = "done"
            /\ fin[f].sid \in sw.expired
            /\ sw.outcome = "ok" \/ fin[f].outcome = "ok"
            => /\ fin[f].sid \notin DOMAIN rows
               /\ fs[fin[f].sid] = NoDir
               /\ Stored(fin[f].sid) = {})
    /\ [][\A f \in Finalizers :
            pc[f] = "persist" /\ pc'[f] # "persist"
            /\ fin[f].sid \notin DOMAIN rows
            => /\ pc'[f] = "respond"
               /\ fs'[fin[f].sid] = NoDir
               /\ rows' = rows /\ archive' = archive]_vars

C35_Witness ==
    \E f \in Finalizers :
        /\ pc[f] = "done" /\ pc[Sweeper] = "done"
        /\ fin[f].sid \in sw.expired
        /\ sw.outcome = "ok"
        /\ fin[f].outcome = "ok"
        /\ fin[f].row = Null
        /\ fin[f].transcript # Null
        /\ fin[f].sid \notin DOMAIN rows

\* C36: under any interleaving of upload_chunk calls on one session, every
\* call adds its whole body as one block at the end of the buffer file and
\* no other step of an upload changes the file: no two bodies are
\* interleaved, none is lost or written twice; the blocks are in the order
\* of the writes, which need not be the order of arrival.
C36_ChunksAreContiguousBlocks ==
    [][\A s \in allocated :
         fs[s].webm # Null =>
            \/ fs'[s].webm = fs[s].webm
            \/ \E u \in AllUploaders :
                 /\ pc[u] = "write" /\ pc'[u] = "idle"
                 /\ up[u].sid = s
                 /\ fs'[s].webm = Some(Append(fs[s].webm[1], up[u].chunk[1]))
                 /\ \A v \in AllUploaders \ {u} :
                      pc'[v] = pc[v] /\ up'[v] = up[v]]_vars

C36_Witness ==
    \E s \in allocated :
        /\ fs[s].webm = Some(<<"more", "bytes">>)
        /\ \A u \in AllUploaders : pc[u] = "idle"

\* C37: after a non-guest finalize has returned, with success or with an
\* error, the object store or local archive holds an audio object of the
\* session if and only if the row's audio_path is set to that object's key:
\* no stored object is unreferenced and a committed audio_path refers to a
\* stored object.
C37_StoredIffReferenced ==
    \A f \in Finalizers :
        pc[f] = "done" /\ WasUser(f) /\ fin[f].sid \in DOMAIN rows =>
            /\ \A k \in Stored(fin[f].sid) :
                 rows[fin[f].sid].audio_path = Some(k)
            /\ rows[fin[f].sid].audio_path # Null =>
                 rows[fin[f].sid].audio_path[1] \in archive

\* failures of the storage delete, as the delete handlers report them
StorageDeleteErrors == {"storage_error", "unlink_error"}

\* C38: deleting a session recording or a practice attempt removes the
\* stored audio first and the row second. A delete request that reported a
\* failed storage delete has left its row in place, unchanged, and the audio
\* where it was; and whenever a row is removed, its audio has already gone
\* from the store.
C38_AudioFirstRowSecond ==
    /\ [][ /\ \A s \in DOMAIN rows \ DOMAIN rows' :
                rows[s].audio_path # Null
                  => rows[s].audio_path[1] \notin archive
           /\ \A a \in attempts \ attempts' : a.audio_path \notin objects
           /\ (rec'.pc = "done" /\ rec'.outcome \in StorageDeleteErrors
                 /\ rec.pc # "done")
                => rows' = rows /\ archive' = archive
           /\ (del'.pc = "done" /\ del'.outcome \in StorageDeleteErrors
                 /\ del.pc # "done")
                => attempts' = attempts /\ objects' = objects ]_vars
    /\ []( /\ (rec.pc = "done" /\ rec.outcome \in StorageDeleteErrors)
               => /\ rec.session_id \in DOMAIN rows
                  /\ rows[rec.session_id] = rec.session[1]
           /\ (del.pc = "done" /\ del.outcome \in StorageDeleteErrors)
               => del.attempt[1] \in attempts )

C38_Witness ==
    /\ del.pc = "done"
    /\ del.outcome = "storage_error"
    /\ del.current_user = "u1"
    /\ del.attempt[1] \in attempts
    /\ del.attempt[1].audio_path \in objects

\* the caller is not the authenticated owner of what was found
Stranger(current_user, found) ==
    \/ current_user = NoUser
    \/ found = Null
    \/ found[1].user_id # current_user

\* the outcomes of a refused request
Refusals == {"unauthenticated", "not_found"}

\* C39: detail, audio download and delete take effect only for the
\* authenticated owner. A request by an unauthenticated caller, or by a
\* user who does not own the session or attempt, is answered with 401 or
\* not found, carries no transcript and no audio, and leaves rows and stored
\* audio as they were; and every step that changes a row or the stored
\* audio belongs to a delete request of the owner.
C39_OnlyTheOwner ==
    [][ /\ (view.pc = "idle" /\ view'.pc = "done"
             /\ Stranger(view'.current_user,
                         IF view'.handler \in {"session_detail",
                                               "get_session_audio"}
                         THEN SelectRow(view'.id)
                         ELSE SelectAttempt(view'.id)))
            => /\ view'.outcome \in Refusals
               /\ view'.body = Null
               /\ rows' = rows /\ archive' = archive
               /\ attempts' = attempts /\ objects' = objects
        /\ (rec.pc = "idle" /\ rec'.pc # "idle"
             /\ Stranger(rec'.current_user, SelectRow(rec'.session_id)))
            => /\ rec'.pc = "done" /\ rec'.outcome \in Refusals
               /\ rows' = rows /\ archive' = archive
        /\ (del.pc = "idle" /\ del'.pc # "idle"
             /\ Stranger(del'.current_user, SelectAttempt(del'.attempt_id)))
            => /\ del'.pc = "done" /\ del'.outcome \in Refusals
               /\ attempts' = attempts /\ objects' = objects
        /\ (rows' # rows \/ archive' # archive)
            => /\ rec.session # Null
               /\ rec.current_user # NoUser
               /\ rec.session[1].user_id = rec.current_user
        /\ (attempts' # attempts \/ objects' # objects)
            => /\ del.attempt # Null
               /\ del.current_user # NoUser
               /\ del.attempt[1].user_id = del.current_user ]_vars

C39_Witness ==
    /\ view.pc = "done"
    /\ view.handler = "get_session_audio"
    /\ view.current_user = "u2"
    /\ view.id = "s1"
    /\ rows["s1"].audio_path # Null
    /\ rows["s1"].audio_path[1] \in archive
    /\ view.outcome = "not_found"
    /\ view.body = Null

====
